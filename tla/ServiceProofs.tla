---------------------------- MODULE ServiceProofs ----------------------------
(***************************************************************************)
(* What the services around the daemon promise, for every value of the     *)
(* constants: the search for daemons in the network, the connection to the *)
(* MQTT broker, the files that are written, the client: its window and its *)
(* scan of a parameter, and the events that travel through the daemon.     *)
(***************************************************************************)
EXTENDS NetworkDiscovery, MqttSink, FileSink, GuiConnection, ScanForm, EventFlow, TLAPS, SequenceTheorems,
        FiniteSetTheorems, WellFoundedInduction

-----------------------------------------------------------------------------
(* NetworkDiscovery.                                                        *)

\* A request comes from a client; an answer comes from a daemon and goes to a client.
SoundPackets ==
    {p \in [to : Hosts, from : Hosts, type : {"GUI", "DAEMON"}] :
        /\ p.from \in (IF p.type = "DAEMON" THEN Daemons ELSE Guis)
        /\ p.type = "DAEMON" => p.to \in Guis}

NdTypeOK ==
    /\ ndSock \in [Hosts -> {"none", "bound", "unbound", "closed"}]
    /\ ndRunning \in [Hosts -> BOOLEAN]
    /\ ndStop \in [Hosts -> {"no", "flagged", "joining", "stopped"}]
    /\ ndPc \in [Hosts -> {"none", "loop", "prepare", "crashed", "select", "receive", "handle", "done"}]
    /\ ndHeld \in [Hosts -> SoundPackets \cup {NoPacket}]
    /\ ndNet \subseteq SoundPackets
    /\ addresses \in [Guis -> Seq(Daemons)] /\ ndQueued \in [Guis -> Seq(Daemons)]
    /\ device_counter \in [Guis -> Nat] /\ ndFound \in [Guis -> SUBSET Daemons]

\* The receiver holds a packet only while it handles it.
HeldIsHandled == \A h \in Hosts : IF ndPc[h] = "handle" THEN ndHeld[h] \in SoundPackets ELSE ndHeld[h] = NoPacket

\* The list of a client has each daemon it found once, or the signal about it still waits.
ListIsOfTheFound ==
    \A g \in Guis :
       /\ \A i, j \in 1..Len(addresses[g]) : addresses[g][i] = addresses[g][j] => i = j
       /\ ToSet(addresses[g]) \cup ToSet(ndQueued[g]) = ndFound[g]

\* The receiver begins with the socket; stop() has closed that before it joins the receiver, and
\* ends when the receiver has.
ThreadIsInOrder ==
    \A h \in Hosts :
       /\ ndSock[h] = "none" => ndPc[h] = "none"
       /\ ndStop[h] \in {"joining", "stopped"} => ndSock[h] = "closed"
       /\ ndStop[h] = "stopped" => ndPc[h] = "done"

NdIInv == NdTypeOK /\ HeldIsHandled /\ ListIsOfTheFound /\ ThreadIsInOrder

\* What appending to a sequence and taking its head away does to the set of its members.
LEMMA ToSetAppend ==
    ASSUME NEW S, NEW s \in Seq(S), NEW x \in S
    PROVE  ToSet(Append(s, x)) = ToSet(s) \cup {x}
<1>1. /\ DOMAIN Append(s, x) = 1..(Len(s) + 1) /\ DOMAIN s = 1..Len(s) /\ Len(s) \in Nat
      /\ \A i \in 1..Len(s) : Append(s, x)[i] = s[i]
      /\ Append(s, x)[Len(s) + 1] = x
  OBVIOUS
<1>2. 1..(Len(s) + 1) = 1..Len(s) \cup {Len(s) + 1}
  BY <1>1
<1> QED
  BY <1>1, <1>2, ZenonT(40) DEF ToSet

LEMMA ToSetTail ==
    ASSUME NEW S, NEW s \in Seq(S), s # <<>>
    PROVE  Head(s) \in S /\ Tail(s) \in Seq(S) /\ ToSet(s) = {Head(s)} \cup ToSet(Tail(s))
<1>1. /\ Len(s) \in Nat \ {0} /\ DOMAIN s = 1..Len(s) /\ Tail(s) \in Seq(S)
      /\ Head(s) = s[1] /\ Head(s) \in S /\ DOMAIN Tail(s) = 1..(Len(s) - 1)
      /\ \A i \in 1..(Len(s) - 1) : Tail(s)[i] = s[i + 1]
  OBVIOUS
<1>2. ASSUME NEW i \in 1..Len(s), i # 1 PROVE i - 1 \in 1..(Len(s) - 1) /\ s[i] = Tail(s)[i - 1]
  <2>1. i - 1 \in 1..(Len(s) - 1) /\ (i - 1) + 1 = i
    BY <1>1, <1>2
  <2> QED
    BY <1>1, <2>1
<1>3. ASSUME NEW i \in 1..(Len(s) - 1) PROVE i + 1 \in 1..Len(s)
  BY <1>1
<1>4. 1 \in 1..Len(s)
  BY <1>1
<1>5. ToSet(s) \subseteq {Head(s)} \cup ToSet(Tail(s))
  <2> SUFFICES ASSUME NEW i \in 1..Len(s) PROVE s[i] \in {Head(s)} \cup ToSet(Tail(s))
    BY <1>1 DEF ToSet
  <2>1. CASE i = 1
    BY <1>1, <2>1
  <2>2. CASE i # 1
    BY <1>1, <1>2, <2>2, Zenon DEF ToSet
  <2> QED
    BY <2>1, <2>2
<1>6. {Head(s)} \cup ToSet(Tail(s)) \subseteq ToSet(s)
  BY <1>1, <1>3, <1>4, Zenon DEF ToSet
<1> QED
  BY <1>1, <1>5, <1>6

LEMMA ToSetIsIn == ASSUME NEW S, NEW s \in Seq(S) PROVE ToSet(s) \subseteq S
  BY DEF ToSet

LEMMA NdIInvInit == DiscoveryInit => NdIInv
<1> SUFFICES ASSUME DiscoveryInit PROVE NdIInv
  OBVIOUS
<1>1. NdTypeOK
  BY DEF DiscoveryInit, NdTypeOK
<1>2. HeldIsHandled /\ ThreadIsInOrder
  BY DEF DiscoveryInit, HeldIsHandled, ThreadIsInOrder
<1>3. ListIsOfTheFound
  BY DEF DiscoveryInit, ListIsOfTheFound, ToSet
<1> QED
  BY <1>1, <1>2, <1>3 DEF NdIInv

LEMMA NdIInvStep == NdIInv /\ [DiscoveryNext]_ndVars => NdIInv'
<1> SUFFICES ASSUME NdIInv, [DiscoveryNext]_ndVars PROVE NdIInv'
  OBVIOUS
<1> USE DEF NdIInv
<1>1. CASE UNCHANGED ndVars
  BY <1>1 DEF ndVars, ndWindow, NdTypeOK, HeldIsHandled, ListIsOfTheFound, ThreadIsInOrder
<1>2. CASE NdLose
  BY <1>2 DEF NdLose, ndWindow, NdTypeOK, HeldIsHandled, ListIsOfTheFound, ThreadIsInOrder
<1>3. ASSUME NEW g \in Guis, discover(g) PROVE NdIInv'
  <2>1. \A h \in Hosts : [to |-> h, from |-> g, type |-> "GUI"] \in SoundPackets
    BY <1>3 DEF SoundPackets, Hosts
  <2>2. NdTypeOK'
    BY <1>3, <2>1 DEF discover, NdTypeOK
  <2> QED
    BY <1>3, <2>2 DEF discover, HeldIsHandled, ListIsOfTheFound, ThreadIsInOrder
<1>4. ASSUME NEW g \in Guis, deviceDiscovered(g) PROVE NdIInv'
  <2> DEFINE new == Head(ndQueued[g])
  <2>1. /\ ndQueued[g] \in Seq(Daemons) /\ addresses[g] \in Seq(Daemons)
        /\ new \in Daemons /\ Tail(ndQueued[g]) \in Seq(Daemons)
        /\ ToSet(ndQueued[g]) = {new} \cup ToSet(Tail(ndQueued[g]))
    BY <1>4, ToSetTail DEF deviceDiscovered, NdTypeOK
  <2>2. addresses' = [addresses EXCEPT ![g] = IF new \in ToSet(addresses[g]) THEN addresses[g] ELSE Append(addresses[g], new)]
    BY <1>4 DEF deviceDiscovered
  <2>3. NdTypeOK'
    BY <1>4, <2>1, <2>2 DEF deviceDiscovered, NdTypeOK
  <2>4. HeldIsHandled' /\ ThreadIsInOrder'
    BY <1>4 DEF deviceDiscovered, HeldIsHandled, ThreadIsInOrder
  <2>5. ToSet(addresses'[g]) = ToSet(addresses[g]) \cup {new}
    BY <2>1, <2>2, ToSetAppend DEF NdTypeOK
  <2>6. /\ ndQueued' = [ndQueued EXCEPT ![g] = Tail(ndQueued[g])] /\ ndFound' = ndFound
        /\ ndQueued \in [Guis -> Seq(Daemons)] /\ addresses \in [Guis -> Seq(Daemons)]
    BY <1>4 DEF deviceDiscovered, NdTypeOK
  <2>7. ASSUME NEW k \in Guis PROVE ToSet(addresses'[k]) \cup ToSet(ndQueued'[k]) = ndFound'[k]
    BY <2>1, <2>2, <2>5, <2>6, Zenon DEF ListIsOfTheFound
  <2>8. ASSUME NEW k \in Guis, NEW i \in 1..Len(addresses'[k]), NEW j \in 1..Len(addresses'[k]),
               addresses'[k][i] = addresses'[k][j]
        PROVE  i = j
    <3>1. CASE k # g \/ new \in ToSet(addresses[g])
      BY <3>1, <2>2, <2>6, <2>8 DEF ListIsOfTheFound
    <3>2. CASE k = g /\ new \notin ToSet(addresses[g])
      <4>1. addresses'[k] = Append(addresses[g], new)
        BY <3>2, <2>2, <2>6
      <4>2. \A n \in 1..Len(addresses[g]) : addresses[g][n] # new
        BY <3>2, <2>1 DEF ToSet
      <4> QED
        BY <4>1, <4>2, <2>1, <2>8 DEF ListIsOfTheFound
    <3> QED
      BY <3>1, <3>2
  <2> QED
    BY <2>3, <2>4, <2>7, <2>8 DEF ListIsOfTheFound
<1>5. ASSUME NEW h \in Hosts, NdStart(h) \/ LoopTest(h) \/ Prepare(h) \/ Select(h) PROVE NdIInv'
  <2>1. NdTypeOK'
    BY <1>5, ZenonT(40) DEF NdStart, LoopTest, Prepare, Select, Moves, ndWindow, NdTypeOK
  <2>2. HeldIsHandled' /\ ThreadIsInOrder'
    <3>1. CASE NdStart(h)
      BY <1>5, <3>1 DEF NdStart, ndWindow, NdTypeOK, HeldIsHandled, ThreadIsInOrder
    <3>2. CASE LoopTest(h) \/ Prepare(h) \/ Select(h)
      BY <1>5, <3>2 DEF LoopTest, Prepare, Select, Moves, ndWindow, NdTypeOK, HeldIsHandled, ThreadIsInOrder
    <3> QED
      BY <1>5, <3>1, <3>2
  <2>3. ListIsOfTheFound'
    BY <1>5 DEF NdStart, LoopTest, Prepare, Select, ndWindow, ListIsOfTheFound
  <2> QED
    BY <2>1, <2>2, <2>3
<1>6. ASSUME NEW h \in Hosts, Receive(h) PROVE NdIInv'
  <2>1. NdTypeOK'
    <3>1. ndNet' \subseteq SoundPackets /\ ndHeld' \in [Hosts -> SoundPackets \cup {NoPacket}]
      <4>1. CASE UNCHANGED <<ndHeld, ndNet>>
        BY <4>1 DEF NdTypeOK
      <4>2. ASSUME NEW p \in ndNet, ndHeld' = [ndHeld EXCEPT ![h] = p], ndNet' \in {ndNet, ndNet \ {p}}
            PROVE  ndNet' \subseteq SoundPackets /\ ndHeld' \in [Hosts -> SoundPackets \cup {NoPacket}]
        BY <4>2 DEF NdTypeOK
      <4>3. \/ UNCHANGED <<ndHeld, ndNet>>
            \/ \E p \in ndNet : ndHeld' = [ndHeld EXCEPT ![h] = p] /\ ndNet' \in {ndNet, ndNet \ {p}}
        BY <1>6 DEF Receive
      <4> QED
        BY <4>1, <4>2, <4>3
    <3>2. ndPc' \in [Hosts -> {"none", "loop", "prepare", "crashed", "select", "receive", "handle", "done"}]
      <4>1. \E to \in {"loop", "handle"} : ndPc' = [ndPc EXCEPT ![h] = to]
        BY <1>6, Zenon DEF Receive, Moves
      <4> QED
        BY <4>1 DEF NdTypeOK
    <3> QED
      BY <1>6, <3>1, <3>2 DEF Receive, ndWindow, NdTypeOK
  <2>2. HeldIsHandled' /\ ThreadIsInOrder'
    BY <1>6, ZenonT(40) DEF Receive, Moves, ndWindow, NdTypeOK, HeldIsHandled, ThreadIsInOrder
  <2>3. ListIsOfTheFound'
    BY <1>6 DEF Receive, ndWindow, ListIsOfTheFound
  <2> QED
    BY <2>1, <2>2, <2>3
<1>7. ASSUME NEW h \in Hosts, HandlePacket(h) PROVE NdIInv'
  <2> DEFINE p == ndHeld[h]
             answer == [to |-> p.from, from |-> h, type |-> "DAEMON"]
  <2>1. p \in SoundPackets
    BY <1>7 DEF HandlePacket, Moves, HeldIsHandled
  <2>2. Answers(h, p) => answer \in SoundPackets
    BY <2>1 DEF Answers, SoundPackets, Hosts
  <2>3. Listens(h, p) => h \in Guis /\ p.from \in Daemons
    BY <2>1 DEF Listens, SoundPackets
  <2>4. /\ ndPc[h] = "handle" /\ ndPc' = [ndPc EXCEPT ![h] = "loop"] /\ ndHeld' = [ndHeld EXCEPT ![h] = NoPacket]
        /\ ndNet' = IF Answers(h, p) /\ ndSock[h] # "closed" THEN ndNet \cup {answer} ELSE ndNet
        /\ \/ /\ Listens(h, p)
              /\ ndQueued' = [ndQueued EXCEPT ![h] = Append(ndQueued[h], p.from)]
              /\ ndFound' = [ndFound EXCEPT ![h] = ndFound[h] \cup {p.from}]
           \/ UNCHANGED <<ndQueued, ndFound>>
        /\ UNCHANGED <<ndSock, ndRunning, ndStop, addresses, device_counter>>
    BY <1>7, Zenon DEF HandlePacket, Moves
  <2>5. NdTypeOK'
    <3>1. ndNet' \subseteq SoundPackets
      BY <2>2, <2>4 DEF NdTypeOK
    <3>2. ndQueued' \in [Guis -> Seq(Daemons)] /\ ndFound' \in [Guis -> SUBSET Daemons]
      <4>1. CASE UNCHANGED <<ndQueued, ndFound>>
        BY <4>1 DEF NdTypeOK
      <4>2. CASE /\ Listens(h, p)
                 /\ ndQueued' = [ndQueued EXCEPT ![h] = Append(ndQueued[h], p.from)]
                 /\ ndFound' = [ndFound EXCEPT ![h] = ndFound[h] \cup {p.from}]
        <5>1. Append(ndQueued[h], p.from) \in Seq(Daemons) /\ ndFound[h] \cup {p.from} \subseteq Daemons
          BY <2>3, <4>2 DEF NdTypeOK
        <5> QED
          BY <2>3, <4>2, <5>1 DEF NdTypeOK
      <4> QED
        BY <2>4, <4>1, <4>2
    <3>3. /\ ndPc' \in [Hosts -> {"none", "loop", "prepare", "crashed", "select", "receive", "handle", "done"}]
          /\ ndHeld' \in [Hosts -> SoundPackets \cup {NoPacket}]
      BY <2>4 DEF NdTypeOK
    <3> QED
      BY <2>4, <3>1, <3>2, <3>3 DEF NdTypeOK
  <2>6. HeldIsHandled' /\ ThreadIsInOrder'
    BY <2>4 DEF NdTypeOK, HeldIsHandled, ThreadIsInOrder
  <2>7. ListIsOfTheFound'
    <3>1. CASE /\ Listens(h, p)
               /\ ndQueued' = [ndQueued EXCEPT ![h] = Append(ndQueued[h], p.from)]
               /\ ndFound' = [ndFound EXCEPT ![h] = ndFound[h] \cup {p.from}]
      <4>1. ToSet(Append(ndQueued[h], p.from)) = ToSet(ndQueued[h]) \cup {p.from}
        BY <2>3, <3>1, ToSetAppend DEF NdTypeOK
      <4>2. /\ h \in Guis
            /\ ndQueued' = [ndQueued EXCEPT ![h] = Append(ndQueued[h], p.from)]
            /\ ndFound' = [ndFound EXCEPT ![h] = ndFound[h] \cup {p.from}] /\ addresses' = addresses
        BY <2>3, <2>4, <3>1
      <4>3. ASSUME NEW k \in Guis PROVE ToSet(addresses'[k]) \cup ToSet(ndQueued'[k]) = ndFound'[k]
        <5>1. CASE k = h
          BY <4>1, <4>2, <5>1 DEF NdTypeOK, ListIsOfTheFound
        <5>2. CASE k # h
          BY <4>2, <5>2 DEF NdTypeOK, ListIsOfTheFound
        <5> QED
          BY <5>1, <5>2
      <4> QED
        BY <4>2, <4>3 DEF ListIsOfTheFound
    <3>2. CASE UNCHANGED <<ndQueued, ndFound>>
      BY <2>4, <3>2 DEF ListIsOfTheFound
    <3> QED
      BY <2>4, <3>1, <3>2
  <2> QED
    BY <2>5, <2>6, <2>7
<1>8. ASSUME NEW h \in Hosts, StopRunning(h) \/ StopSocket(h) \/ StopThread(h) PROVE NdIInv'
  <2>1. NdTypeOK'
    BY <1>8 DEF StopRunning, StopSocket, StopThread, ndWindow, NdTypeOK
  <2>2. HeldIsHandled' /\ ThreadIsInOrder'
    BY <1>8 DEF StopRunning, StopSocket, StopThread, ndWindow, NdTypeOK, HeldIsHandled, ThreadIsInOrder
  <2>3. ListIsOfTheFound'
    BY <1>8 DEF StopRunning, StopSocket, StopThread, ndWindow, ListIsOfTheFound
  <2> QED
    BY <2>1, <2>2, <2>3
<1> QED
  BY <1>1, <1>2, <1>3, <1>4, <1>5, <1>6, <1>7, <1>8, Zenon DEF DiscoveryNext

LEMMA NdIInvIsSound == NdIInv => DiscoveryIsSound
<1> SUFFICES ASSUME NdIInv PROVE DiscoveryIsSound
  OBVIOUS
<1>1. \A p \in ndNet : p.from \in (IF p.type = "DAEMON" THEN Daemons ELSE Guis) /\ (p.type = "DAEMON" => p.to \in Guis)
  BY DEF NdIInv, NdTypeOK, SoundPackets
<1>2. \A g \in Guis :
         /\ \A i, j \in 1..Len(addresses[g]) : addresses[g][i] = addresses[g][j] => i = j
         /\ ToSet(addresses[g]) \cup ToSet(ndQueued[g]) = ndFound[g] /\ ndFound[g] \subseteq Daemons
  BY DEF NdIInv, NdTypeOK, ListIsOfTheFound
<1>3. \A h \in Hosts : ndStop[h] = "stopped" => ndHeld[h] = NoPacket /\ ndSock[h] = "closed"
  BY DEF NdIInv, HeldIsHandled, ThreadIsInOrder
<1> QED
  BY <1>1, <1>2, <1>3, Zenon DEF DiscoveryIsSound

\* Whatever the network loses, repeats or reorders, requests and answers end there, a client's list
\* has each daemon that answered once, and a stopped receiver left no packet half handled
\* (networkdiscovery.cpp, mainwindow.cpp), for any number of clients, daemons, searches and packets.
THEOREM DiscoveryStaysSound == DiscoverySpec => []DiscoveryIsSound
  BY NdIInvInit, NdIInvStep, NdIInvIsSound, PTL DEF DiscoverySpec

-----------------------------------------------------------------------------
(* MqttSink.                                                                *)

MqttStatuses == {"Invalid", "Connecting", "Connected", "Disconnecting", "Disconnected", "Error"}
MqttSteps == [do : {"set", "publish", "pw_set", "connect_async", "disconnect", "loop_stop", "destroy", "forget"},
              status : MqttStatuses]

MqttTypeOK == mainTodo \in Seq(MqttSteps) /\ loopTodo \in Seq(MqttSteps)

\* The start is a script of four steps; until its last one the library does nothing by itself.
StartIsInOrder ==
    (~mqttEnding /\ mainTodo # <<>>) =>
       LET n == Len(mainTodo)
       IN /\ n <= 4 /\ link = "idle" /\ loopTodo = <<>> /\ mTold = "Connecting"
          /\ mainTodo[n] = Call("connect_async")
          /\ n >= 2 => mainTodo[n - 1] = Call("pw_set")
          /\ n >= 3 => mainTodo[n - 2] = [do |-> "publish", status |-> "Connecting"]
          /\ n >= 4 => mainTodo[n - 3] = [do |-> "set", status |-> "Connecting"]
          /\ n <= 3 => mStatus = "Connecting"

\* Until the shutdown the handle lives, and every script of the loop thread ends by storing and
\* publishing the status that fits the connection.
LoopIsInOrder ==
    ~mqttEnding =>
       /\ mMqtt = "live" /\ ~mqttFault /\ link \in {"idle", "trying", "up"}
       /\ loopTodo # <<>> =>
             LET n == Len(loopTodo)
                 s == loopTodo[n].status
             IN /\ loopTodo[n].do = "publish"
                /\ s = "Connected" <=> link = "up"
                /\ IF n = 1 THEN mStatus = s
                            ELSE loopTodo[n - 1] = [do |-> "set", status |-> s]

\* With no script under way the status is the connection's.
QuietIsTrue ==
    (~mqttEnding /\ mainTodo = <<>> /\ loopTodo = <<>>) =>
       (mStatus = "Connected" <=> link = "up") /\ (mqttFailed \/ mTold = mStatus)

\* The shutdown ends with the loop thread, the handle and the pointer, in this order.
EndIsInOrder ==
    mqttEnding =>
       LET n == Len(mainTodo)
       IN /\ n >= 1 => mainTodo[n] = Call("forget")
          /\ n >= 2 => mainTodo[n - 1] = Call("destroy")
          /\ n >= 3 => mainTodo[n - 2] = Call("loop_stop")
          /\ \A i \in 1..(n - 3) : mainTodo[i].do \in {"set", "publish", "disconnect"}
          /\ n < 3 => ~loopOn /\ loopTodo = <<>>
          /\ n = 0 => mMqtt = "null"

MqttIInv == MqttTypeOK /\ StartIsInOrder /\ LoopIsInOrder /\ QuietIsTrue /\ EndIsInOrder

LEMMA ConcatIs ==
    ASSUME NEW s \in Seq(MqttSteps), NEW t \in Seq(MqttSteps)
    PROVE  /\ s \o t \in Seq(MqttSteps) /\ Len(s) \in Nat /\ Len(t) \in Nat /\ Len(s \o t) = Len(s) + Len(t)
           /\ \A i \in 1..Len(s) : (s \o t)[i] = s[i]
           /\ \A i \in 1..Len(t) : (s \o t)[Len(s) + i] = t[i]
  OBVIOUS

LEMMA AnnounceIs ==
    ASSUME NEW s \in MqttStatuses
    PROVE  /\ Announce(s) \in Seq(MqttSteps) /\ Len(Announce(s)) = 2
           /\ Announce(s)[1] = [do |-> "set", status |-> s]
           /\ Announce(s)[2] = [do |-> "publish", status |-> s]
  BY DEF Announce, MqttSteps

LEMMA CallIs ==
    ASSUME NEW f \in {"pw_set", "connect_async", "disconnect", "loop_stop", "destroy", "forget"}
    PROVE  Call(f) \in MqttSteps /\ Call(f).do = f
  BY DEF Call, MqttSteps, MqttStatuses

LEMMA MqttIInvInit == MqttInit => MqttIInv
<1> SUFFICES ASSUME MqttInit PROVE MqttIInv
  OBVIOUS
<1> DEFINE a == Announce("Connecting")
           b == <<Call("pw_set"), Call("connect_async")>>
<1>1. /\ a \in Seq(MqttSteps) /\ Len(a) = 2 /\ a[1] = [do |-> "set", status |-> "Connecting"]
      /\ a[2] = [do |-> "publish", status |-> "Connecting"]
  BY AnnounceIs DEF MqttStatuses
<1>2. b \in Seq(MqttSteps) /\ Len(b) = 2 /\ b[1] = Call("pw_set") /\ b[2] = Call("connect_async")
  BY CallIs
<1> HIDE DEF a, b
<1>3. mainTodo = a \o b
  BY DEF MqttInit, a, b
<1>4. /\ mainTodo \in Seq(MqttSteps) /\ Len(mainTodo) = 4
      /\ mainTodo[1] = a[1] /\ mainTodo[2] = a[2] /\ mainTodo[3] = b[1] /\ mainTodo[4] = b[2]
  <2>1. /\ a \o b \in Seq(MqttSteps) /\ Len(a \o b) = 4
        /\ \A i \in 1..2 : (a \o b)[i] = a[i] /\ (a \o b)[2 + i] = b[i]
    <3>1. /\ a \o b \in Seq(MqttSteps) /\ Len(a \o b) = Len(a) + Len(b)
          /\ \A i \in 1..Len(a) : (a \o b)[i] = a[i]
          /\ \A i \in 1..Len(b) : (a \o b)[Len(a) + i] = b[i]
      BY <1>1, <1>2, ConcatIs, Zenon
    <3> QED
      BY <1>1, <1>2, <3>1
  <2>2. /\ (a \o b)[1] = a[1] /\ (a \o b)[2] = a[2] /\ (a \o b)[2 + 1] = b[1] /\ (a \o b)[2 + 2] = b[2]
    BY <2>1
  <2> QED
    BY <1>3, <2>1, <2>2
<1>5. loopTodo = <<>> /\ link = "idle" /\ mTold = "Connecting" /\ mMqtt = "live" /\ ~mqttFault /\ ~mqttEnding
  BY DEF MqttInit
<1>6. MqttTypeOK /\ LoopIsInOrder /\ EndIsInOrder
  BY <1>4, <1>5 DEF MqttTypeOK, LoopIsInOrder, EndIsInOrder
<1>7. StartIsInOrder
  BY <1>1, <1>2, <1>4, <1>5 DEF StartIsInOrder
<1>8. QuietIsTrue
  BY <1>4 DEF QuietIsTrue
<1> QED
  BY <1>6, <1>7, <1>8 DEF MqttIInv

\* What every step of a script does to it.
LEMMA TailOfScript ==
    ASSUME NEW s \in Seq(MqttSteps), s # <<>>
    PROVE  /\ Tail(s) \in Seq(MqttSteps) /\ Len(s) \in Nat \ {0} /\ Len(Tail(s)) = Len(s) - 1
           /\ Head(s) = s[1] /\ Head(s) \in MqttSteps
           /\ \A i \in 1..(Len(s) - 1) : Tail(s)[i] = s[i + 1]
  OBVIOUS

LEMMA MqttMainConnects == MqttIInv /\ MainConnects => MqttIInv'
<1> SUFFICES ASSUME MqttIInv, MainConnects PROVE MqttIInv'
  OBVIOUS
<1> USE DEF MqttIInv
<1> DEFINE n == Len(mainTodo)
<1>1. /\ n \in Nat \ {0} /\ Tail(mainTodo) \in Seq(MqttSteps) /\ Len(Tail(mainTodo)) = n - 1
      /\ Head(mainTodo) = mainTodo[1] /\ mainTodo # <<>>
      /\ \A i \in 1..(n - 1) : Tail(mainTodo)[i] = mainTodo[i + 1]
  BY TailOfScript DEF MqttTypeOK, MainConnects
<1>2. /\ Call("forget").do = "forget" /\ Call("destroy").do = "destroy" /\ Call("loop_stop").do = "loop_stop"
      /\ Call("pw_set").do = "pw_set" /\ Call("connect_async").do = "connect_async"
  BY CallIs
<1>3. ~mqttEnding
  <2>1. n >= 4 => 1 \in 1..(n - 3)
    BY <1>1
  <2> QED
    BY <1>1, <1>2, <2>1 DEF MainConnects, EndIsInOrder
<1>4. link = "idle" /\ loopTodo = <<>> /\ mTold = "Connecting" /\ n \in {1, 2} /\ mStatus = "Connecting"
  BY <1>1, <1>2, <1>3 DEF MainConnects, StartIsInOrder
<1>5. /\ ~mqttEnding' /\ UNCHANGED <<mMqtt, mTold, loopTodo, mqttFault>>
      /\ \/ mStatus' = "Error" /\ mqttFailed' = TRUE /\ mainTodo' = <<>> /\ link' = link
         \/ /\ mainTodo' = Tail(mainTodo) /\ mStatus' = mStatus
            /\ link' = IF Head(mainTodo).do = "connect_async" THEN "trying" ELSE link
  BY <1>3 DEF MainConnects
<1>6. CASE mStatus' = "Error" /\ mqttFailed' = TRUE /\ mainTodo' = <<>> /\ link' = link
  <2>1. LoopIsInOrder' /\ QuietIsTrue'
    BY <1>3, <1>4, <1>5, <1>6 DEF LoopIsInOrder, QuietIsTrue
  <2> QED
    BY <1>3, <1>4, <1>5, <1>6, <2>1 DEF MqttTypeOK, StartIsInOrder, EndIsInOrder
<1>7. CASE /\ mainTodo' = Tail(mainTodo) /\ mStatus' = mStatus
           /\ link' = IF Head(mainTodo).do = "connect_async" THEN "trying" ELSE link
  <2>1. CASE n = 1
    <3>1. link' = "trying"
      BY <1>1, <1>2, <1>3, <1>7, <2>1 DEF StartIsInOrder
    <3>2. mainTodo' = <<>>
      BY <1>1, <1>7, <2>1
    <3> QED
      BY <1>3, <1>4, <1>5, <1>7, <3>1, <3>2 DEF MqttTypeOK, StartIsInOrder, LoopIsInOrder, QuietIsTrue, EndIsInOrder
  <2>2. CASE n = 2
    <3>1. /\ mainTodo[1] = Call("pw_set") /\ mainTodo[2] = Call("connect_async")
      BY <1>1, <1>3, <2>2 DEF StartIsInOrder
    <3>2. link' = "idle"
      BY <1>1, <1>2, <1>4, <1>7, <3>1
    <3>3. mainTodo' # <<>> /\ Len(mainTodo') = 1 /\ mainTodo'[1] = Call("connect_async")
      <4>1. 1 \in 1..(n - 1) /\ Len(Tail(mainTodo)) = 1
        BY <1>1, <2>2
      <4>2. Tail(mainTodo)[1] = mainTodo[1 + 1]
        BY <1>1, <4>1
      <4> QED
        BY <1>1, <1>7, <3>1, <4>1, <4>2
    <3>4. MqttTypeOK' /\ QuietIsTrue' /\ EndIsInOrder'
      BY <1>1, <1>5, <1>7, <3>3 DEF MqttTypeOK, QuietIsTrue, EndIsInOrder
    <3>5. StartIsInOrder'
      BY <1>4, <1>5, <1>7, <3>2, <3>3, SMTT(30) DEF StartIsInOrder
    <3>6. LoopIsInOrder'
      BY <1>3, <1>4, <1>5, <3>2 DEF LoopIsInOrder
    <3> QED
      BY <3>4, <3>5, <3>6
  <2> QED
    BY <1>4, <2>1, <2>2
<1> QED
  BY <1>5, <1>6, <1>7

LEMMA MqttShutdown == MqttIInv /\ shutdown => MqttIInv'
<1> SUFFICES ASSUME MqttIInv, shutdown PROVE MqttIInv'
  OBVIOUS
<1> USE DEF MqttIInv
<1> DEFINE d == IF connected THEN Announce("Disconnecting") \o <<Call("disconnect")>> ELSE <<>>
           e == <<Call("loop_stop"), Call("destroy"), Call("forget")>>
<1>1. /\ e \in Seq(MqttSteps) /\ Len(e) = 3
      /\ e[1] = Call("loop_stop") /\ e[2] = Call("destroy") /\ e[3] = Call("forget")
  BY CallIs
<1>2. d \in Seq(MqttSteps) /\ \A i \in 1..Len(d) : d[i].do \in {"set", "publish", "disconnect"}
  <2> DEFINE a == Announce("Disconnecting")
             c == <<Call("disconnect")>>
  <2>1. a \in Seq(MqttSteps) /\ Len(a) = 2 /\ a[1].do = "set" /\ a[2].do = "publish"
    BY AnnounceIs DEF MqttStatuses
  <2>2. c \in Seq(MqttSteps) /\ Len(c) = 1 /\ c[1].do = "disconnect"
    BY CallIs
  <2> HIDE DEF a, c
  <2>3. a \o c \in Seq(MqttSteps) /\ \A i \in 1..Len(a \o c) : (a \o c)[i].do \in {"set", "publish", "disconnect"}
    <3>1. /\ a \o c \in Seq(MqttSteps) /\ Len(a \o c) = 3
          /\ (a \o c)[1] = a[1] /\ (a \o c)[2] = a[2] /\ (a \o c)[2 + 1] = c[1]
      <4>1. /\ a \o c \in Seq(MqttSteps) /\ Len(a \o c) = Len(a) + Len(c)
            /\ \A i \in 1..Len(a) : (a \o c)[i] = a[i]
            /\ \A i \in 1..Len(c) : (a \o c)[Len(a) + i] = c[i]
        BY <2>1, <2>2, ConcatIs, Zenon
      <4> QED
        BY <2>1, <2>2, <4>1
    <3> QED
      BY <2>1, <2>2, <3>1
  <2>4. d = IF connected THEN a \o c ELSE <<>>
    BY DEF a, c
  <2> HIDE DEF d
  <2> QED
    BY <2>3, <2>4
<1> HIDE DEF d, e
<1>3. mainTodo' = d \o e /\ mqttEnding' /\ UNCHANGED loopTodo
  BY DEF shutdown, d, e
<1>4. /\ mainTodo' \in Seq(MqttSteps) /\ Len(mainTodo') = Len(d) + 3 /\ Len(d) \in Nat
      /\ \A i \in 1..Len(d) : mainTodo'[i] = d[i]
      /\ mainTodo'[Len(d) + 1] = e[1] /\ mainTodo'[Len(d) + 2] = e[2] /\ mainTodo'[Len(d) + 3] = e[3]
  <2>1. /\ d \o e \in Seq(MqttSteps) /\ Len(d \o e) = Len(d) + 3 /\ Len(d) \in Nat
        /\ \A i \in 1..Len(d) : (d \o e)[i] = d[i]
        /\ \A i \in 1..3 : (d \o e)[Len(d) + i] = e[i]
    <3>1. /\ d \o e \in Seq(MqttSteps) /\ Len(d \o e) = Len(d) + Len(e) /\ Len(d) \in Nat
          /\ \A i \in 1..Len(d) : (d \o e)[i] = d[i]
          /\ \A i \in 1..Len(e) : (d \o e)[Len(d) + i] = e[i]
      BY <1>1, <1>2, ConcatIs, Zenon
    <3> QED
      BY <1>1, <3>1
  <2> QED
    BY <1>3, <2>1
<1>5. EndIsInOrder'
  BY <1>1, <1>2, <1>4 DEF EndIsInOrder
<1> QED
  BY <1>3, <1>4, <1>5 DEF MqttTypeOK, StartIsInOrder, LoopIsInOrder, QuietIsTrue

\* In the shutdown a step that takes one off the script, and may put two announcements before it,
\* keeps the end of the script.
LEMMA MqttEnds ==
    ASSUME MqttIInv, mqttEnding, mqttEnding', mainTodo # <<>>, Len(mainTodo) > 3,
           loopTodo' \in Seq(MqttSteps), NEW s \in MqttStatuses,
           mainTodo' \in {Tail(mainTodo), Announce(s) \o Tail(mainTodo)}
    PROVE  MqttIInv'
<1> USE DEF MqttIInv
<1> DEFINE n == Len(mainTodo)
           t == Tail(mainTodo)
<1>1. /\ n \in Nat \ {0} /\ t \in Seq(MqttSteps) /\ Len(t) = n - 1 /\ n > 3
      /\ \A i \in 1..(n - 1) : t[i] = mainTodo[i + 1]
  BY TailOfScript DEF MqttTypeOK
<1>2. /\ t[n - 1] = Call("forget") /\ t[n - 2] = Call("destroy") /\ t[n - 3] = Call("loop_stop")
      /\ \A i \in 1..(n - 4) : t[i].do \in {"set", "publish", "disconnect"}
  <2>1. /\ mainTodo[n] = Call("forget") /\ mainTodo[n - 1] = Call("destroy") /\ mainTodo[n - 2] = Call("loop_stop")
        /\ \A i \in 1..(n - 3) : mainTodo[i].do \in {"set", "publish", "disconnect"}
    BY <1>1 DEF EndIsInOrder
  <2> HIDE DEF t
  <2>2. t[n - 1] = mainTodo[n] /\ t[n - 2] = mainTodo[n - 1] /\ t[n - 3] = mainTodo[n - 2]
    <3>1. /\ n - 1 \in 1..(n - 1) /\ n - 2 \in 1..(n - 1) /\ n - 3 \in 1..(n - 1)
          /\ (n - 1) + 1 = n /\ (n - 2) + 1 = n - 1 /\ (n - 3) + 1 = n - 2
      BY <1>1
    <3> HIDE DEF n
    <3> QED
      BY <1>1, <3>1
  <2>3. ASSUME NEW i \in 1..(n - 4) PROVE i + 1 \in 1..(n - 3) /\ t[i] = mainTodo[i + 1]
    <3> HIDE DEF n
    <3>1. i \in 1..(n - 1) /\ i + 1 \in 1..(n - 3)
      BY <1>1, <2>3
    <3> QED
      BY <1>1, <3>1
  <2> QED
    BY <2>1, <2>2, <2>3
<1>3. /\ Announce(s) \in Seq(MqttSteps) /\ Len(Announce(s)) = 2
      /\ Announce(s)[1].do = "set" /\ Announce(s)[2].do = "publish"
  <2>1. /\ Announce(s) \in Seq(MqttSteps) /\ Len(Announce(s)) = 2
        /\ Announce(s)[1] = [do |-> "set", status |-> s]
        /\ Announce(s)[2] = [do |-> "publish", status |-> s]
    BY AnnounceIs
  <2>2. ASSUME NEW a, a[1] = [do |-> "set", status |-> s], a[2] = [do |-> "publish", status |-> s]
        PROVE  a[1].do = "set" /\ a[2].do = "publish"
    BY <2>2
  <2> QED
    BY <2>1, <2>2, Zenon
<1> HIDE DEF t
<1>4. CASE mainTodo' = t
  <2>1. EndIsInOrder'
    BY <1>1, <1>2, <1>4 DEF EndIsInOrder
  <2> QED
    BY <1>1, <1>4, <2>1 DEF MqttTypeOK, StartIsInOrder, LoopIsInOrder, QuietIsTrue
<1>5. CASE mainTodo' = Announce(s) \o t
  <2> DEFINE m == n + 1
  <2>1. /\ mainTodo' \in Seq(MqttSteps) /\ Len(mainTodo') = m
        /\ mainTodo'[1] = Announce(s)[1] /\ mainTodo'[2] = Announce(s)[2]
        /\ \A i \in 1..(n - 1) : mainTodo'[i + 2] = t[i]
    <3>1. /\ Announce(s) \o t \in Seq(MqttSteps) /\ Len(Announce(s) \o t) = 2 + (n - 1)
          /\ \A i \in 1..2 : (Announce(s) \o t)[i] = Announce(s)[i]
          /\ \A i \in 1..(n - 1) : (Announce(s) \o t)[2 + i] = t[i]
      <4> HIDE DEF n
      <4>1. /\ Announce(s) \o t \in Seq(MqttSteps) /\ Len(Announce(s) \o t) = Len(Announce(s)) + Len(t)
            /\ \A i \in 1..Len(Announce(s)) : (Announce(s) \o t)[i] = Announce(s)[i]
            /\ \A i \in 1..Len(t) : (Announce(s) \o t)[Len(Announce(s)) + i] = t[i]
        BY <1>1, <1>3, ConcatIs, Zenon
      <4> QED
        BY <1>1, <1>3, <4>1, Zenon
    <3>2. 2 + (n - 1) = m /\ (\A i \in 1..(n - 1) : i + 2 = 2 + i) /\ {1, 2} \subseteq 1..2
      BY <1>1
    <3> HIDE DEF n, m
    <3> QED
      BY <1>5, <3>1, <3>2
  <2>2. mainTodo'[m] = t[n - 1] /\ mainTodo'[m - 1] = t[n - 2] /\ mainTodo'[m - 2] = t[n - 3]
    <3> HIDE DEF n
    <3>1. /\ n - 1 \in 1..(n - 1) /\ n - 2 \in 1..(n - 1) /\ n - 3 \in 1..(n - 1)
          /\ (n - 1) + 2 = m /\ (n - 2) + 2 = m - 1 /\ (n - 3) + 2 = m - 2
      BY <1>1
    <3> HIDE DEF m
    <3> QED
      BY <2>1, <3>1
  <2>3. ASSUME NEW i \in 1..(m - 3) PROVE mainTodo'[i].do \in {"set", "publish", "disconnect"}
    <3>1. CASE i \in {1, 2}
      BY <1>3, <2>1, <3>1
    <3>2. CASE i \notin {1, 2}
      <4>1. i - 2 \in 1..(n - 4) /\ i - 2 \in 1..(n - 1) /\ (i - 2) + 2 = i
        BY <1>1, <2>3, <3>2
      <4> QED
        BY <1>2, <2>1, <4>1
    <3> QED
      BY <3>1, <3>2
  <2>4. EndIsInOrder'
    BY <1>1, <1>2, <2>1, <2>2, <2>3 DEF EndIsInOrder
  <2> QED
    BY <2>1, <2>4 DEF MqttTypeOK, StartIsInOrder, LoopIsInOrder, QuietIsTrue
<1> QED
  BY <1>4, <1>5 DEF t

LEMMA MqttMainDisconnects == MqttIInv /\ MainDisconnects => MqttIInv'
<1> SUFFICES ASSUME MqttIInv, MainDisconnects PROVE MqttIInv'
  OBVIOUS
<1>1. /\ mainTodo \in Seq(MqttSteps) /\ mainTodo # <<>> /\ Len(mainTodo) \in Nat \ {0}
      /\ mainTodo[1].do = "disconnect" /\ loopTodo \in Seq(MqttSteps)
      /\ loopTodo' = loopTodo /\ mqttEnding' = mqttEnding
      /\ \E s \in MqttStatuses : mainTodo' = Announce(s) \o Tail(mainTodo)
  <2>1. /\ mainTodo \in Seq(MqttSteps) /\ mainTodo # <<>> /\ loopTodo \in Seq(MqttSteps)
        /\ Head(mainTodo).do = "disconnect" /\ loopTodo' = loopTodo /\ mqttEnding' = mqttEnding
        /\ \/ mainTodo' = Announce("Disconnected") \o Tail(mainTodo)
           \/ mainTodo' = Announce("Invalid") \o Tail(mainTodo)
    BY DEF MqttIInv, MqttTypeOK, MainDisconnects
  <2>2. {"Disconnected", "Invalid"} \subseteq MqttStatuses
    BY DEF MqttStatuses
  <2>3. Len(mainTodo) \in Nat \ {0} /\ Head(mainTodo) = mainTodo[1]
    BY <2>1
  <2> QED
    BY <2>1, <2>2, <2>3, Zenon
<1>2. /\ Call("forget").do = "forget" /\ Call("destroy").do = "destroy" /\ Call("loop_stop").do = "loop_stop"
      /\ Call("pw_set").do = "pw_set" /\ Call("connect_async").do = "connect_async"
  BY CallIs
<1>3. mqttEnding /\ Len(mainTodo) > 3
  BY <1>1, <1>2, SMTT(30) DEF MqttIInv, StartIsInOrder, EndIsInOrder
<1> QED
  BY <1>1, <1>3, MqttEnds

LEMMA MqttMainCleansUp == MqttIInv /\ MainCleansUp => MqttIInv'
<1> SUFFICES ASSUME MqttIInv, MainCleansUp PROVE MqttIInv'
  OBVIOUS
<1> USE DEF MqttIInv
<1> DEFINE n == Len(mainTodo)
<1>1. /\ n \in Nat \ {0} /\ Tail(mainTodo) \in Seq(MqttSteps) /\ Len(Tail(mainTodo)) = n - 1
      /\ Head(mainTodo) = mainTodo[1] /\ mainTodo # <<>>
      /\ \A i \in 1..(n - 1) : Tail(mainTodo)[i] = mainTodo[i + 1]
  BY TailOfScript DEF MqttTypeOK, MainCleansUp
<1>2. /\ Call("forget").do = "forget" /\ Call("destroy").do = "destroy" /\ Call("loop_stop").do = "loop_stop"
      /\ Call("pw_set").do = "pw_set" /\ Call("connect_async").do = "connect_async"
  BY CallIs
<1>3. mqttEnding /\ n <= 3
  <2>1. mainTodo[1].do \in {"loop_stop", "destroy", "forget"} /\ Len(mainTodo) \in Nat \ {0}
    BY <1>1 DEF MainCleansUp
  <2>2. mqttEnding
    <3>1. CASE n \in {1, 2, 3, 4} /\ ~mqttEnding
      BY <1>1, <1>2, <2>1, <3>1 DEF StartIsInOrder
    <3>2. n \in {1, 2, 3, 4} \/ mqttEnding
      BY <1>1, SMTT(30) DEF StartIsInOrder
    <3> QED
      BY <3>1, <3>2
  <2>3. n >= 4 => 1 \in 1..(n - 3)
    BY <1>1
  <2> QED
    BY <1>1, <2>1, <2>2, <2>3 DEF EndIsInOrder
<1>4. /\ mainTodo' = Tail(mainTodo) /\ mqttEnding' = mqttEnding
      /\ Head(mainTodo).do = "loop_stop" => loopOn' = FALSE /\ loopTodo' = <<>>
      /\ Head(mainTodo).do # "loop_stop" => loopOn' = loopOn /\ loopTodo' = loopTodo
      /\ Head(mainTodo).do = "forget" => mMqtt' = "null"
  BY DEF MainCleansUp
<1>5. EndIsInOrder'
  <2>1. CASE n = 1
    BY <1>1, <1>2, <1>3, <1>4, <2>1 DEF EndIsInOrder
  <2>2. CASE n = 2
    BY <1>1, <1>2, <1>3, <1>4, <2>2 DEF EndIsInOrder
  <2>3. CASE n = 3
    <3>1. mainTodo[1] = Call("loop_stop") /\ mainTodo[2] = Call("destroy") /\ mainTodo[3] = Call("forget")
      BY <1>3, <2>3 DEF EndIsInOrder
    <3>2. /\ mainTodo'[1] = mainTodo[2] /\ mainTodo'[2] = mainTodo[3] /\ Len(mainTodo') = 2
      <4>1. {1, 2} \subseteq 1..(n - 1)
        BY <2>3
      <4>2. Tail(mainTodo)[1] = mainTodo[1 + 1] /\ Tail(mainTodo)[2] = mainTodo[2 + 1]
        BY <1>1, <4>1, Zenon
      <4>3. 1 + 1 = 2 /\ 2 + 1 = 3 /\ n - 1 = 2
        BY <2>3
      <4> QED
        BY <1>1, <1>4, <4>2, <4>3, Zenon
    <3>3. ~loopOn' /\ loopTodo' = <<>>
      BY <1>1, <1>2, <1>4, <3>1
    <3> QED
      BY <3>1, <3>2, <3>3 DEF EndIsInOrder
  <2> QED
    BY <1>1, <1>3, <2>1, <2>2, <2>3
<1>6. MqttTypeOK'
  <2>1. loopTodo' \in {loopTodo, <<>>}
    BY DEF MainCleansUp
  <2>2. loopTodo' \in Seq(MqttSteps)
    <3>1. <<>> \in Seq(MqttSteps)
      OBVIOUS
    <3> QED
      BY <2>1, <3>1, Zenon DEF MqttTypeOK
  <2> QED
    BY <1>1, <1>4, <2>2 DEF MqttTypeOK
<1> QED
  BY <1>3, <1>4, <1>5, <1>6 DEF StartIsInOrder, LoopIsInOrder, QuietIsTrue

LEMMA MqttMainTells == MqttIInv /\ MainTells => MqttIInv'
<1> SUFFICES ASSUME MqttIInv, MainTells PROVE MqttIInv'
  OBVIOUS
<1> USE DEF MqttIInv
<1> DEFINE n == Len(mainTodo)
<1>1. /\ n \in Nat \ {0} /\ Tail(mainTodo) \in Seq(MqttSteps) /\ Len(Tail(mainTodo)) = n - 1
      /\ Head(mainTodo) = mainTodo[1] /\ mainTodo # <<>>
      /\ \A i \in 1..(n - 1) : Tail(mainTodo)[i] = mainTodo[i + 1]
  BY TailOfScript DEF MqttTypeOK, MainTells
<1>2. /\ Call("forget").do = "forget" /\ Call("destroy").do = "destroy" /\ Call("loop_stop").do = "loop_stop"
      /\ Call("pw_set").do = "pw_set" /\ Call("connect_async").do = "connect_async"
  BY CallIs
<1>3. /\ mainTodo' = Tail(mainTodo) /\ UNCHANGED <<mMqtt, loopTodo, loopOn, link, mqttFailed, mqttEnding, mqttFault>>
      /\ mainTodo[1].do \in {"set", "publish"}
      /\ mStatus' = IF mainTodo[1].do = "set" THEN mainTodo[1].status ELSE mStatus
      /\ mTold' = IF mainTodo[1].do = "publish" THEN mainTodo[1].status ELSE mTold
  BY <1>1 DEF MainTells, Told
<1>4. CASE mqttEnding
  <2>1. n > 3
    BY <1>1, <1>2, <1>3, <1>4 DEF EndIsInOrder
  <2>2. loopTodo' \in Seq(MqttSteps) /\ "Invalid" \in MqttStatuses
    BY <1>3 DEF MqttTypeOK, MqttStatuses
  <2> QED
    BY <1>1, <1>3, <1>4, <2>1, <2>2, MqttEnds
<1>5. CASE ~mqttEnding
  <2>1. n \in {3, 4} /\ link = "idle" /\ loopTodo = <<>> /\ mTold = "Connecting"
    BY <1>1, <1>2, <1>3, <1>5 DEF StartIsInOrder
  <2>2. /\ n = 3 => /\ mainTodo[1] = [do |-> "publish", status |-> "Connecting"] /\ mStatus = "Connecting"
                     /\ mainTodo[2] = Call("pw_set") /\ mainTodo[3] = Call("connect_async")
        /\ n = 4 => /\ mainTodo[1] = [do |-> "set", status |-> "Connecting"]
                     /\ mainTodo[2] = [do |-> "publish", status |-> "Connecting"]
                     /\ mainTodo[3] = Call("pw_set") /\ mainTodo[4] = Call("connect_async")
    <3>1. CASE n = 3
      BY <1>1, <1>5, <3>1 DEF StartIsInOrder
    <3>2. CASE n = 4
      BY <1>1, <1>5, <3>2 DEF StartIsInOrder
    <3> QED
      BY <2>1, <3>1, <3>2
  <2>3. mTold' = "Connecting" /\ mStatus' = "Connecting"
    BY <1>3, <2>1, <2>2
  <2>4. StartIsInOrder'
    <3>1. CASE n = 3
      <4>1. {1, 2} \subseteq 1..(n - 1)
        BY <3>1
      <4>2. Len(mainTodo') = 2 /\ mainTodo'[1] = mainTodo[2] /\ mainTodo'[2] = mainTodo[3]
        <5>1. Tail(mainTodo)[1] = mainTodo[1 + 1] /\ Tail(mainTodo)[2] = mainTodo[2 + 1]
          BY <1>1, <4>1, Zenon
        <5>2. 1 + 1 = 2 /\ 2 + 1 = 3 /\ n - 1 = 2
          BY <3>1
        <5> QED
          BY <1>1, <1>3, <5>1, <5>2, Zenon
      <4>3. mainTodo'[1] = Call("pw_set") /\ mainTodo'[2] = Call("connect_async") /\ link' = "idle" /\ loopTodo' = <<>>
        BY <1>3, <2>1, <2>2, <3>1, <4>2
      <4> QED
        BY <2>3, <4>2, <4>3 DEF StartIsInOrder
    <3>2. CASE n = 4
      <4>1. {1, 2, 3} \subseteq 1..(n - 1)
        BY <3>2
      <4>2. Len(mainTodo') = 3 /\ mainTodo'[1] = mainTodo[2] /\ mainTodo'[2] = mainTodo[3] /\ mainTodo'[3] = mainTodo[4]
        <5>1. Tail(mainTodo)[1] = mainTodo[1 + 1] /\ Tail(mainTodo)[2] = mainTodo[2 + 1] /\ Tail(mainTodo)[3] = mainTodo[3 + 1]
          BY <1>1, <4>1, Zenon
        <5>2. 1 + 1 = 2 /\ 2 + 1 = 3 /\ 3 + 1 = 4 /\ n - 1 = 3
          BY <3>2
        <5> QED
          BY <1>1, <1>3, <5>1, <5>2, Zenon
      <4>3. /\ mainTodo'[1] = [do |-> "publish", status |-> "Connecting"] /\ mainTodo'[2] = Call("pw_set")
            /\ mainTodo'[3] = Call("connect_async") /\ link' = "idle" /\ loopTodo' = <<>>
        BY <1>3, <2>1, <2>2, <3>2, <4>2
      <4> QED
        BY <2>3, <4>2, <4>3 DEF StartIsInOrder
    <3> QED
      BY <2>1, <3>1, <3>2
  <2>5. mainTodo' # <<>>
    <3>1. Len(mainTodo') # 0
      BY <1>1, <1>3, <2>1
    <3> QED
      BY <3>1
  <2> QED
    BY <1>1, <1>3, <1>5, <2>1, <2>4, <2>5 DEF MqttTypeOK, LoopIsInOrder, QuietIsTrue, EndIsInOrder
<1> QED
  BY <1>4, <1>5

LEMMA MqttLoopTells == MqttIInv /\ LoopTells => MqttIInv'
<1> SUFFICES ASSUME MqttIInv, LoopTells PROVE MqttIInv'
  OBVIOUS
<1> USE DEF MqttIInv
<1> DEFINE n == Len(loopTodo)
           s == loopTodo[n].status
<1>1. /\ n \in Nat \ {0} /\ Tail(loopTodo) \in Seq(MqttSteps) /\ Len(Tail(loopTodo)) = n - 1
      /\ Head(loopTodo) = loopTodo[1] /\ loopTodo # <<>>
      /\ \A i \in 1..(n - 1) : Tail(loopTodo)[i] = loopTodo[i + 1]
  BY TailOfScript DEF MqttTypeOK, LoopTells
<1>2. /\ loopTodo' = Tail(loopTodo) /\ UNCHANGED <<mMqtt, mainTodo, loopOn, link, mqttFailed, mqttEnding, mqttFault>>
      /\ mStatus' = IF loopTodo[1].do = "set" THEN loopTodo[1].status ELSE mStatus
      /\ mTold' = IF loopTodo[1].do = "publish" THEN loopTodo[1].status ELSE mTold
  BY <1>1 DEF LoopTells, Told
<1>3. MqttTypeOK'
  BY <1>1, <1>2 DEF MqttTypeOK
<1>4. EndIsInOrder'
  BY <1>1, <1>2 DEF EndIsInOrder
<1>5. StartIsInOrder'
  BY <1>1, <1>2 DEF StartIsInOrder
<1>6. CASE mqttEnding
  BY <1>2, <1>3, <1>4, <1>5, <1>6 DEF LoopIsInOrder, QuietIsTrue
<1>7. CASE ~mqttEnding
  <2>1. /\ mMqtt = "live" /\ ~mqttFault /\ link \in {"idle", "trying", "up"}
        /\ loopTodo[n].do = "publish" /\ (s = "Connected" <=> link = "up")
        /\ n = 1 => mStatus = s
        /\ n # 1 => loopTodo[n - 1] = [do |-> "set", status |-> s]
    BY <1>1, <1>7 DEF LoopIsInOrder
  <2>2. CASE n = 1
    <3>1. loopTodo' = <<>> /\ mStatus' = s /\ mTold' = s
      BY <1>1, <1>2, <2>1, <2>2
    <3> QED
      BY <1>2, <1>3, <1>4, <1>5, <2>1, <3>1 DEF LoopIsInOrder, QuietIsTrue
  <2>3. CASE n # 1
    <3>1. /\ Len(loopTodo') = n - 1 /\ loopTodo' # <<>> /\ loopTodo'[n - 1] = loopTodo[n]
          /\ n # 2 => loopTodo'[n - 2] = loopTodo[n - 1]
      <4>1. n - 1 \in 1..(n - 1) /\ (n - 1) + 1 = n /\ (n # 2 => n - 2 \in 1..(n - 1) /\ (n - 2) + 1 = n - 1)
        BY <1>1, <2>3
      <4> HIDE DEF n
      <4>2. Len(loopTodo') = n - 1 /\ loopTodo'[n - 1] = loopTodo[n] /\ (n # 2 => loopTodo'[n - 2] = loopTodo[n - 1])
        BY <1>1, <1>2, <4>1
      <4>3. n - 1 # 0
        BY <1>1, <2>3
      <4> QED
        BY <4>2, <4>3
    <3>2. n = 2 => mStatus' = s
      BY <1>2, <2>1
    <3>3. /\ loopTodo'[n - 1].do = "publish" /\ (loopTodo'[n - 1].status = "Connected" <=> link' = "up")
          /\ n = 2 => mStatus' = loopTodo'[n - 1].status
          /\ n # 2 => loopTodo'[n - 2] = [do |-> "set", status |-> loopTodo'[n - 1].status]
      BY <1>2, <2>1, <2>3, <3>1, <3>2
    <3>4. LoopIsInOrder'
      <4>1. n - 1 = 1 <=> n = 2
        BY <1>1
      <4>2. (n - 1) - 1 = n - 2
        BY <1>1
      <4> QED
        BY <1>2, <2>1, <3>1, <3>3, <4>1, <4>2 DEF LoopIsInOrder
    <3> QED
      BY <1>3, <1>4, <1>5, <3>1, <3>4 DEF QuietIsTrue
  <2> QED
    BY <2>2, <2>3
<1> QED
  BY <1>6, <1>7

\* A callback begins a script that ends in the announcement of the status that fits.
LEMMA MqttCallback ==
    ASSUME MqttIInv, loopOn, loopTodo = <<>>, link # "idle",
           NEW pre \in Seq(MqttSteps), NEW s \in MqttStatuses,
           loopTodo' = pre \o Announce(s),
           ~mqttEnding => (link' \in {"trying", "up"} /\ (s = "Connected" <=> link' = "up")),
           UNCHANGED <<mMqtt, mStatus, mTold, mainTodo, loopOn, mqttFailed, mqttEnding, mqttFault>>
    PROVE  MqttIInv'
<1> USE DEF MqttIInv
<1> DEFINE m == Len(pre) + 2
<1>1. /\ Announce(s) \in Seq(MqttSteps) /\ Len(Announce(s)) = 2
      /\ Announce(s)[1] = [do |-> "set", status |-> s]
      /\ Announce(s)[2] = [do |-> "publish", status |-> s]
  BY AnnounceIs
<1>2. /\ loopTodo' \in Seq(MqttSteps) /\ Len(loopTodo') = m /\ Len(pre) \in Nat /\ loopTodo' # <<>>
      /\ loopTodo'[m] = [do |-> "publish", status |-> s]
      /\ loopTodo'[m - 1] = [do |-> "set", status |-> s]
  <2> DEFINE a == Announce(s)
  <2>1. /\ pre \o a \in Seq(MqttSteps) /\ Len(pre) \in Nat /\ Len(pre \o a) = Len(pre) + Len(a)
        /\ \A i \in 1..Len(a) : (pre \o a)[Len(pre) + i] = a[i]
    BY <1>1, ConcatIs, Zenon
  <2> HIDE DEF a
  <2>2. /\ loopTodo' = pre \o a /\ Len(a) = 2
        /\ a[1] = [do |-> "set", status |-> s] /\ a[2] = [do |-> "publish", status |-> s]
    BY <1>1 DEF a
  <2>3. Len(loopTodo') = m /\ loopTodo'[Len(pre) + 1] = a[1] /\ loopTodo'[Len(pre) + 2] = a[2]
    BY <2>1, <2>2
  <2>4. Len(pre) + 1 = m - 1 /\ m # 0
    BY <2>1
  <2>5. loopTodo' # <<>>
    BY <2>3, <2>4
  <2> QED
    BY <2>1, <2>2, <2>3, <2>4, <2>5
<1>3. MqttTypeOK' /\ QuietIsTrue'
  BY <1>2 DEF MqttTypeOK, QuietIsTrue
<1>4. StartIsInOrder'
  BY DEF StartIsInOrder
<1>5. EndIsInOrder'
  BY DEF EndIsInOrder
<1>6. LoopIsInOrder'
  BY <1>2 DEF LoopIsInOrder
<1> QED
  BY <1>3, <1>4, <1>5, <1>6

LEMMA MqttConnected == ASSUME NEW accepted \in BOOLEAN, MqttIInv, callback_connected(accepted) PROVE MqttIInv'
<1>1. /\ loopOn /\ loopTodo = <<>> /\ link = "trying"
      /\ UNCHANGED <<mMqtt, mStatus, mTold, mainTodo, loopOn, mqttFailed, mqttEnding, mqttFault>>
  BY DEF callback_connected
<1> DEFINE e == Announce("Error")
           x == IF mTries < s_max_tries THEN <<>> ELSE Announce("Error")
<1>2. {"Error", "Connected", "Connecting"} \subseteq MqttStatuses /\ e \in Seq(MqttSteps) /\ x \in Seq(MqttSteps)
  BY AnnounceIs DEF MqttStatuses
<1>3. CASE accepted
  <2>1. link' = "up" /\ loopTodo' = Announce("Connected")
    BY <1>3 DEF callback_connected
  <2>2. Announce("Connected") = <<>> \o Announce("Connected") /\ <<>> \in Seq(MqttSteps)
    BY <1>2, AnnounceIs
  <2>3. loopTodo' = <<>> \o Announce("Connected")
    BY <2>1, <2>2
  <2> QED
    BY <1>1, <1>2, <2>1, <2>2, <2>3, MqttCallback
<1>4. CASE ~accepted
  <2>1. link' = link /\ loopTodo' = e \o x \o Announce("Connecting")
    BY <1>4 DEF callback_connected
  <2>2. e \o x \in Seq(MqttSteps)
    BY <1>2
  <2> QED
    BY <1>1, <1>2, <2>1, <2>2, MqttCallback
<1> QED
  BY <1>3, <1>4

LEMMA MqttDisconnected == MqttIInv /\ callback_disconnected => MqttIInv'
<1> SUFFICES ASSUME MqttIInv, callback_disconnected PROVE MqttIInv'
  OBVIOUS
<1>1. /\ loopOn /\ loopTodo = <<>>
      /\ UNCHANGED <<mMqtt, mStatus, mTold, mainTodo, loopOn, mqttFailed, mqttEnding, mqttFault>>
      /\ \/ link = "up" /\ link' = "trying" /\ loopTodo' = LostScript
         \/ link = "closed" /\ link' = "idle" /\ loopTodo' = Announce("Disconnected")
  BY DEF callback_disconnected
<1>2. {"Error", "Disconnected"} \subseteq MqttStatuses /\ <<>> \in Seq(MqttSteps)
  BY DEF MqttStatuses
<1>3. \A s \in MqttStatuses : <<>> \o Announce(s) = Announce(s)
  BY AnnounceIs
<1>4. CASE link = "closed" /\ link' = "idle" /\ loopTodo' = Announce("Disconnected")
  <2>1. mqttEnding
    BY <1>4 DEF MqttIInv, LoopIsInOrder
  <2>2. loopTodo' = <<>> \o Announce("Disconnected")
    BY <1>2, <1>3, <1>4
  <2> QED
    BY <1>1, <1>2, <1>4, <2>1, <2>2, MqttCallback
<1>5. CASE link = "up" /\ link' = "trying" /\ loopTodo' = LostScript
  <2>1. CASE connected
    <3>1. loopTodo' = <<>> \o Announce("Error")
      BY <1>2, <1>3, <1>5, <2>1 DEF LostScript
    <3> QED
      BY <1>1, <1>2, <1>5, <3>1, MqttCallback
  <2>2. CASE ~connected
    <3>1. mqttEnding
      BY <1>1, <1>5, <2>2 DEF MqttIInv, LoopIsInOrder, StartIsInOrder, QuietIsTrue, connected
    <3>2. loopTodo' = <<>>
      BY <1>5, <2>2 DEF LostScript
    <3> QED
      BY <1>1, <3>1, <3>2 DEF MqttIInv, MqttTypeOK, StartIsInOrder, LoopIsInOrder, QuietIsTrue, EndIsInOrder
  <2> QED
    BY <2>1, <2>2
<1> QED
  BY <1>1, <1>4, <1>5

LEMMA MqttIInvStep == MqttIInv /\ [MqttNext]_mqttVars => MqttIInv'
<1> SUFFICES ASSUME MqttIInv, [MqttNext]_mqttVars PROVE MqttIInv'
  OBVIOUS
<1>1. CASE UNCHANGED mqttVars
  BY <1>1 DEF mqttVars, MqttIInv, MqttTypeOK, StartIsInOrder, LoopIsInOrder, QuietIsTrue, EndIsInOrder
<1>2. CASE publish
  BY <1>2 DEF publish, MqttIInv, MqttTypeOK, StartIsInOrder, LoopIsInOrder, QuietIsTrue, EndIsInOrder
<1>3. CASE PublishSends
  <2>1. LoopIsInOrder'
    <3>1. ~mqttEnding => mMqtt = "live" /\ ~mqttFault
      BY DEF MqttIInv, LoopIsInOrder
    <3>2. ~mqttEnding => ~mqttFault'
      BY <1>3, <3>1 DEF PublishSends
    <3> QED
      BY <1>3, <3>2 DEF PublishSends, MqttIInv, LoopIsInOrder
  <2> QED
    BY <1>3, <2>1 DEF PublishSends, MqttIInv, MqttTypeOK, StartIsInOrder, QuietIsTrue, EndIsInOrder
<1> QED
  BY <1>1, <1>2, <1>3, MqttMainConnects, MqttShutdown, MqttMainDisconnects, MqttMainCleansUp, MqttMainTells,
     MqttLoopTells, MqttDisconnected, MqttConnected, Zenon DEF MqttNext

LEMMA MqttIInvIsTrue == MqttIInv => MqttStatusIsTrue
<1> SUFFICES ASSUME MqttIInv PROVE MqttStatusIsTrue
  OBVIOUS
<1>1. mqttFault => mqttEnding
  BY DEF MqttIInv, LoopIsInOrder
<1>2. (mqttEnding /\ mainTodo = <<>>) => mMqtt = "null" /\ ~loopOn /\ loopTodo = <<>>
  BY DEF MqttIInv, EndIsInOrder
<1>3. QuietIsTrue
  BY DEF MqttIInv
<1> QED
  BY <1>1, <1>2, <1>3, Zenon DEF MqttStatusIsTrue, QuietIsTrue

\* For every number of attempts and errors counted, and however the main thread, the library's loop
\* thread and a publishing worker interleave, the clients are told the true state of the connection
\* between the callbacks, no call meets a destroyed handle before the shutdown, and after it nothing
\* of the library is left (mqtt_sink.cpp).
THEOREM MqttTellsTheTruth == MqttSpec => []MqttStatusIsTrue
  BY MqttIInvInit, MqttIInvStep, MqttIInvIsTrue, PTL DEF MqttSpec

-----------------------------------------------------------------------------
(* FileSink.                                                                *)

\* A set of numbers has a least one.
LEMMA LeastNumber ==
    ASSUME NEW T, T \subseteq Nat, T # {}
    PROVE  \E n \in T : \A m \in T : n <= m
<1>1. IsWellFoundedOn(OpToRel(<, Nat), Nat)
  BY NatLessThanWellFounded
<1>2. PICK n \in T : \A m \in T : ~(<<m, n>> \in OpToRel(<, Nat))
  <2> HIDE DEF OpToRel
  <2> QED
    BY <1>1, WFMin
<1>3. \A m \in T : ~(m < n)
  BY <1>2 DEF OpToRel
<1> QED
  BY <1>3

Paths == [kind : Kinds, second : Int, suffix : Nat, quoted : {FALSE}]
Contents == [lines : SUBSET Nat, written : Nat, reopened : BOOLEAN]

\* What is on the disk at any time, and in between within a rotation.
SoundFiles(files) ==
    /\ DOMAIN files \subseteq Paths
    /\ \A f \in DOMAIN files :
          /\ files[f] \in Contents /\ files[f].written <= fileClock
          /\ \A l \in files[f].lines : l \in 1..lines /\ home[l] = f
          /\ f.suffix < MaxSuffix => ~files[f].reopened

SparedOnly(files) ==
    \A f \in Listed(files) :
        removal.at - files[f].written > RotationPeriod => removal.stopped \/ f \in removal.unreadable

FileTypeOK ==
    /\ fileClock \in Nat /\ fileClock <= MaxFileTime /\ home \in Seq(Paths)
    /\ removal.at \in Int /\ removal.at <= fileClock
    /\ openFiles \subseteq Kinds /\ badStreams \subseteq openFiles /\ writing \in openFiles \cup {"none"}
    /\ buffered \in [Kinds -> SUBSET Nat]
    /\ currentPaths \in [Kinds -> Paths]
    /\ \A p \in config : p.quoted

\* A line in a buffer is on its way to its file; the one being written is there, or its stream has
\* failed.
BuffersAreHome ==
    /\ \A kind \in openFiles : currentPaths[kind] \in DOMAIN disk
    /\ \A kind \in Kinds : \A l \in buffered[kind] : l \in 1..lines /\ home[l] = currentPaths[kind]
    /\ writing # "none" =>
          /\ lines > 0 /\ home[lines] = currentPaths[writing]
          /\ writing \in badStreams \/ lines \in buffered[writing]

\* A stream that has failed did so with the next line or an earlier one.
BadHaveFailed ==
    \A kind \in badStreams : \E n \in 1..(lines + 1) :
        <<currentPaths[kind], n>> \in failed /\ (writing = kind => n <= lines)

InFiles(files, l) == home[l] \in DOMAIN files /\ l \in files[home[l]].lines
Accounted(l) == AfterFailure(l) \/ CutOff(l) \/ OfAge(home[l])
EveryLineIsSomewhere == \A l \in 1..lines : InItsFile(l) \/ BeingWritten(l) \/ Accounted(l)

CutsAreSingle ==
    /\ cut \subseteq Nat \X Nat /\ starts \in Nat
    /\ \A c \in cut : c[2] < starts
    /\ \A c, d \in cut : c[2] = d[2] => c = d

FileIInv ==
    /\ FileTypeOK /\ SoundFiles(disk) /\ SparedOnly(disk) /\ BuffersAreHome /\ BadHaveFailed
    /\ EveryLineIsSomewhere /\ CutsAreSingle

LEMMA LinesAreCounted == ASSUME FileTypeOK PROVE lines \in Nat
  BY DEF FileTypeOK, lines

\* Closing and flushing: the lines of some buffers go to their files, nothing else changes.
LEMMA FlushedIs ==
    ASSUME FileIInv, NEW kinds \in SUBSET Kinds
    PROVE  LET F == Flushed(kinds)
           IN /\ DOMAIN F = DOMAIN disk
              /\ \A f \in DOMAIN disk :
                    /\ \A l : l \in F[f].lines <=>
                          l \in disk[f].lines \/ \E kind \in kinds : f = currentPaths[kind] /\ l \in buffered[kind]
                    /\ F[f].written \in {disk[f].written, fileClock} /\ F[f].reopened = disk[f].reopened
                    /\ F[f] \in Contents
<1> DEFINE F == Flushed(kinds)
           text(f) == UNION {buffered[kind] : kind \in {k \in kinds : f = currentPaths[k]}}
<1>1. DOMAIN F = DOMAIN disk
  BY DEF Flushed
<1>2. ASSUME NEW f \in DOMAIN disk
      PROVE  /\ F[f] = IF text(f) = {} THEN disk[f]
                       ELSE [disk[f] EXCEPT !.lines = disk[f].lines \cup text(f), !.written = fileClock]
             /\ \A l : l \in text(f) <=> \E kind \in kinds : f = currentPaths[kind] /\ l \in buffered[kind]
             /\ text(f) \subseteq Nat /\ disk[f] \in Contents
  <2>1. F[f] = IF text(f) = {} THEN disk[f]
               ELSE [disk[f] EXCEPT !.lines = disk[f].lines \cup text(f), !.written = fileClock]
    BY DEF Flushed
  <2>2. \A l : l \in text(f) <=> \E kind \in kinds : f = currentPaths[kind] /\ l \in buffered[kind]
    OBVIOUS
  <2>3. \A kind \in Kinds : buffered[kind] \subseteq Nat
    BY DEF FileIInv, FileTypeOK
  <2>4. text(f) \subseteq Nat
    BY <2>2, <2>3
  <2>5. disk[f] \in Contents
    BY DEF FileIInv, SoundFiles
  <2> QED
    BY <2>1, <2>2, <2>4, <2>5
<1>3. ASSUME NEW d \in Contents, NEW t \in SUBSET Nat
      PROVE  LET e == [d EXCEPT !.lines = d.lines \cup t, !.written = fileClock]
             IN e.lines = d.lines \cup t /\ e.written = fileClock /\ e.reopened = d.reopened /\ e \in Contents
  BY DEF Contents, FileIInv, FileTypeOK
<1>4. ASSUME NEW f \in DOMAIN disk
      PROVE  /\ \A l : l \in F[f].lines <=> l \in disk[f].lines \/ l \in text(f)
             /\ F[f].written \in {disk[f].written, fileClock} /\ F[f].reopened = disk[f].reopened /\ F[f] \in Contents
  <2> HIDE DEF F, text
  <2>1. CASE text(f) = {}
    BY <1>2, <2>1
  <2>2. CASE text(f) # {}
    <3> DEFINE e == [disk[f] EXCEPT !.lines = disk[f].lines \cup text(f), !.written = fileClock]
    <3>1. F[f] = e /\ disk[f] \in Contents /\ text(f) \in SUBSET Nat
      BY <1>2, <2>2
    <3>2. e.lines = disk[f].lines \cup text(f) /\ e.written = fileClock /\ e.reopened = disk[f].reopened /\ e \in Contents
      BY <1>3, <3>1
    <3> HIDE DEF e
    <3> QED
      BY <3>1, <3>2
  <2> QED
    BY <2>1, <2>2
<1> HIDE DEF F, text
<1>5. ASSUME NEW f \in DOMAIN disk
      PROVE  \A l : l \in F[f].lines <=>
                 l \in disk[f].lines \/ \E kind \in kinds : f = currentPaths[kind] /\ l \in buffered[kind]
  BY <1>2, <1>4
<1> QED
  BY <1>1, <1>4, <1>5 DEF F

LEMMA FlushedIsSound ==
    ASSUME FileIInv, NEW kinds \in SUBSET Kinds
    PROVE  LET F == Flushed(kinds)
           IN /\ SoundFiles(F) /\ SparedOnly(F) /\ DOMAIN F = DOMAIN disk
              /\ \A l \in 1..lines : InItsFile(l) => InFiles(F, l)
<1> DEFINE F == Flushed(kinds)
<1>1. /\ DOMAIN F = DOMAIN disk
      /\ \A f \in DOMAIN disk :
            /\ \A l : l \in F[f].lines <=>
                  l \in disk[f].lines \/ \E kind \in kinds : f = currentPaths[kind] /\ l \in buffered[kind]
            /\ F[f].written \in {disk[f].written, fileClock} /\ F[f].reopened = disk[f].reopened
            /\ F[f] \in Contents
  BY FlushedIs
<1> HIDE DEF F
<1>2. \A f \in DOMAIN disk : \A l \in F[f].lines : l \in 1..lines /\ home[l] = f
  <2>1. \A kind \in Kinds : \A l \in buffered[kind] : l \in 1..lines /\ home[l] = currentPaths[kind]
    BY DEF FileIInv, BuffersAreHome
  <2>2. \A f \in DOMAIN disk : \A l \in disk[f].lines : l \in 1..lines /\ home[l] = f
    BY DEF FileIInv, SoundFiles
  <2> QED
    BY <1>1, <2>1, <2>2
<1>3. \A f \in DOMAIN disk : disk[f].written \in Nat /\ disk[f].written <= fileClock /\ fileClock \in Nat
  BY DEF FileIInv, SoundFiles, FileTypeOK, Contents
<1>4. SoundFiles(F)
  BY <1>1, <1>2, <1>3 DEF FileIInv, SoundFiles
<1>5. SparedOnly(F)
  <2>1. \A f \in DOMAIN disk : disk[f].written <= F[f].written /\ F[f].written \in Nat
    BY <1>1, <1>3
  <2>2. RotationPeriod \in Nat /\ removal.at \in Int
    BY FileSinkAssumption DEF FileIInv, FileTypeOK
  <2> QED
    BY <1>1, <1>3, <2>1, <2>2 DEF FileIInv, SparedOnly, Listed
<1>6. \A l \in 1..lines : InItsFile(l) => InFiles(F, l)
  BY <1>1 DEF InItsFile, InFiles
<1> QED
  BY <1>1, <1>4, <1>5, <1>6 DEF F

\* resolveUniquePaths(): a path of each kind, and an old one only with the last suffix.
LEMMA UniquePaths ==
    ASSUME FileIInv, NEW files, NEW kind \in Kinds
    PROVE  LET p == resolveUniquePaths(files)[kind]
           IN p \in Paths /\ p.kind = kind /\ (p.suffix < MaxSuffix => p \notin DOMAIN files)
<1> DEFINE Free(n) == \A k \in Kinds : makePath(k, n) \notin DOMAIN files
           free == {n \in 0..(MaxSuffix - 1) : Free(n)}
           u == UniqueSuffix(files)
<1>1. MaxSuffix \in Nat
  BY FileSinkAssumption
<1>2. u = IF free = {} THEN MaxSuffix ELSE CHOOSE n \in free : \A m \in free : n <= m
  BY DEF UniqueSuffix
<1>3. u = MaxSuffix \/ u \in free
  <2>1. CASE free = {}
    BY <1>2, <2>1
  <2>2. CASE free # {}
    <3>1. free \subseteq Nat
      BY <1>1
    <3> HIDE DEF free
    <3>2. \E n \in free : \A m \in free : n <= m
      BY <2>2, <3>1, LeastNumber
    <3> QED
      BY <1>2, <2>2, <3>2
  <2> QED
    BY <2>1, <2>2
<1>4. u \in Nat /\ (u < MaxSuffix => makePath(kind, u) \notin DOMAIN files)
  BY <1>1, <1>3
<1>5. resolveUniquePaths(files)[kind] = makePath(kind, u)
  BY DEF resolveUniquePaths
<1> HIDE DEF u
<1>6. makePath(kind, u) \in Paths /\ makePath(kind, u).kind = kind /\ makePath(kind, u).suffix = u
  BY <1>4 DEF makePath, Paths, FileIInv, FileTypeOK
<1> QED
  BY <1>4, <1>5, <1>6

\* openFilesAtPaths(): the lines of every file stay where they are, and the opened files exist.
LEMMA OpenedIsSound ==
    ASSUME FileIInv, NEW files, SoundFiles(files), NEW opened \in SUBSET Kinds
    PROVE  LET O == OpenedAt(files, resolveUniquePaths(files), opened)
           IN /\ SoundFiles(O)
              /\ \A f \in DOMAIN O : IF f \in DOMAIN files
                    THEN O[f].written = files[f].written /\ O[f].lines = files[f].lines
                    ELSE O[f].written = fileClock /\ O[f].lines = {}
              /\ DOMAIN files \subseteq DOMAIN O
              /\ \A kind \in opened : resolveUniquePaths(files)[kind] \in DOMAIN O
<1> DEFINE paths == resolveUniquePaths(files)
           O == OpenedAt(files, paths, opened)
           touched == {paths[kind] : kind \in opened}
<1>1. /\ DOMAIN O = DOMAIN files \cup touched
      /\ \A f \in DOMAIN files : O[f] = IF f \in touched THEN [files[f] EXCEPT !.reopened = TRUE] ELSE files[f]
      /\ \A f \in touched \ DOMAIN files : O[f] = [lines |-> {}, written |-> fileClock, reopened |-> FALSE]
  BY DEF OpenedAt
<1>2. \A f \in touched : f \in Paths /\ (f.suffix < MaxSuffix => f \notin DOMAIN files)
  BY UniquePaths
<1>3. \A kind \in opened : paths[kind] \in touched
  OBVIOUS
<1> HIDE DEF O, paths, touched
<1>4. ASSUME NEW d \in Contents
      PROVE  LET e == [d EXCEPT !.reopened = TRUE]
             IN e \in Contents /\ e.lines = d.lines /\ e.written = d.written
  BY DEF Contents
<1>5. ASSUME NEW f \in DOMAIN files
      PROVE  /\ O[f] \in Contents /\ O[f].lines = files[f].lines /\ O[f].written = files[f].written
             /\ f.suffix < MaxSuffix => ~O[f].reopened
  <2>1. files[f] \in Contents /\ (f.suffix < MaxSuffix => ~files[f].reopened)
    BY DEF SoundFiles
  <2>2. CASE f \in touched
    <3>1. O[f] = [files[f] EXCEPT !.reopened = TRUE] /\ ~(f.suffix < MaxSuffix)
      BY <1>1, <1>2, <2>2
    <3> QED
      BY <1>4, <2>1, <3>1
  <2>3. CASE f \notin touched
    BY <1>1, <2>1, <2>3
  <2> QED
    BY <2>2, <2>3
<1>6. ASSUME NEW f \in touched \ DOMAIN files
      PROVE  O[f] \in Contents /\ O[f].lines = {} /\ O[f].written = fileClock /\ ~O[f].reopened
  <2>1. O[f] = [lines |-> {}, written |-> fileClock, reopened |-> FALSE] /\ fileClock \in Nat
    BY <1>1 DEF FileIInv, FileTypeOK
  <2> QED
    BY <2>1 DEF Contents
<1>7. fileClock \in Nat
  BY DEF FileIInv, FileTypeOK
<1>8. SoundFiles(O)
  <2>1. DOMAIN O \subseteq Paths
    BY <1>1, <1>2 DEF SoundFiles
  <2>2. ASSUME NEW f \in DOMAIN O
        PROVE  /\ O[f] \in Contents /\ O[f].written <= fileClock
               /\ \A l \in O[f].lines : l \in 1..lines /\ home[l] = f
               /\ f.suffix < MaxSuffix => ~O[f].reopened
    <3>1. CASE f \in DOMAIN files
      BY <1>5, <3>1 DEF SoundFiles
    <3>2. CASE f \notin DOMAIN files
      BY <1>1, <1>6, <1>7, <3>2
    <3> QED
      BY <3>1, <3>2
  <2> QED
    BY <2>1, <2>2 DEF SoundFiles
<1>9. \A f \in DOMAIN O : IF f \in DOMAIN files
          THEN O[f].written = files[f].written /\ O[f].lines = files[f].lines
          ELSE O[f].written = fileClock /\ O[f].lines = {}
  BY <1>1, <1>5, <1>6
<1> QED
  BY <1>1, <1>3, <1>8, <1>9 DEF O, paths

\* openFiles() and the end of a rotation, after which the files on the disk were the given ones:
\* everything but the lines' places is in order again.
LEMMA StartedIsSound ==
    ASSUME FileIInv, NEW files, SoundFiles(files), NEW opened \in SUBSET Kinds, NEW writeHeader,
           Started(files, opened, writeHeader), UNCHANGED <<fileClock, home>>, writing' = "none",
           removal'.at \in Int, removal'.at <= fileClock,
           \A f \in Listed(files) :
              removal'.at - files[f].written > RotationPeriod => removal'.stopped \/ f \in removal'.unreadable
    PROVE  /\ FileTypeOK' /\ SoundFiles(disk)' /\ SparedOnly(disk)' /\ BuffersAreHome' /\ BadHaveFailed'
           /\ lines' = lines /\ failed \subseteq failed'
           /\ \A l \in 1..lines : InFiles(files, l) => InItsFile(l)'
<1> DEFINE paths == resolveUniquePaths(files)
<1>1. /\ currentPaths' = paths /\ config' = Quoted(paths) /\ openFiles' = opened
      /\ disk' = OpenedAt(files, paths, opened)
      /\ buffered' = [kind \in Kinds |-> {}]
      /\ badStreams' \in IF writeHeader /\ opened = Kinds THEN SUBSET Kinds ELSE {{}}
      /\ failed' = failed \cup {<<paths[kind], lines + 1>> : kind \in badStreams'}
  BY DEF Started
<1>2. /\ SoundFiles(disk')
      /\ \A f \in DOMAIN disk' : IF f \in DOMAIN files
            THEN disk'[f].written = files[f].written /\ disk'[f].lines = files[f].lines
            ELSE disk'[f].written = fileClock /\ disk'[f].lines = {}
      /\ DOMAIN files \subseteq DOMAIN disk'
      /\ \A kind \in opened : paths[kind] \in DOMAIN disk'
  BY <1>1, OpenedIsSound
<1>3. paths = [kind \in Kinds |-> paths[kind]] /\ \A kind \in Kinds : paths[kind] \in Paths /\ paths[kind].kind = kind
  BY UniquePaths DEF resolveUniquePaths
<1> HIDE DEF paths
<1>4. fileClock \in Nat /\ fileClock <= MaxFileTime /\ lines \in Nat /\ RotationPeriod \in Nat
  BY LinesAreCounted, FileSinkAssumption DEF FileIInv, FileTypeOK
<1>5. lines' = lines
  BY DEF lines
<1>6. badStreams' \subseteq opened
  BY <1>1
<1>7. FileTypeOK'
  <2>1. paths \in [Kinds -> Paths]
    BY <1>3
  <2>2. \A p \in config' : p.quoted
    <3>1. ASSUME NEW kind \in Kinds PROVE [paths[kind] EXCEPT !.quoted = TRUE].quoted
      BY <1>3 DEF Paths
    <3> QED
      BY <1>1, <3>1 DEF Quoted
  <2>3. buffered' \in [Kinds -> SUBSET Nat]
    BY <1>1
  <2>4. home \in Seq(Paths)
    BY DEF FileIInv, FileTypeOK
  <2> QED
    BY <1>1, <1>4, <1>6, <2>1, <2>2, <2>3, <2>4 DEF FileTypeOK
<1>8. SoundFiles(disk)'
  BY <1>2, <1>5 DEF SoundFiles
<1>9. SparedOnly(disk)'
  <2>1. ASSUME NEW f \in DOMAIN disk', f.suffix = 0, removal'.at - disk'[f].written > RotationPeriod
        PROVE  removal'.stopped \/ f \in removal'.unreadable
    <3>1. CASE f \in DOMAIN files
      BY <1>2, <2>1, <3>1 DEF Listed
    <3>2. CASE f \notin DOMAIN files
      BY <1>2, <1>4, <2>1, <3>2
    <3> QED
      BY <3>1, <3>2
  <2> QED
    BY <2>1 DEF SparedOnly, Listed
<1>10. BuffersAreHome'
  BY <1>1, <1>2 DEF BuffersAreHome
<1>11. BadHaveFailed'
  <2>1. ASSUME NEW kind \in badStreams' PROVE <<currentPaths'[kind], lines' + 1>> \in failed'
    BY <1>1, <1>5
  <2>2. lines' + 1 \in 1..(lines' + 1) /\ \A kind \in badStreams' : writing' # kind
    BY <1>4, <1>5, <1>6 DEF Kinds
  <2> QED
    BY <2>1, <2>2 DEF BadHaveFailed
<1>12. ASSUME NEW l \in 1..lines, InFiles(files, l) PROVE InItsFile(l)'
  <2>1. home' = home
    OBVIOUS
  <2> QED
    BY <1>2, <1>12, <2>1 DEF InFiles, InItsFile
<1> QED
  BY <1>1, <1>5, <1>7, <1>8, <1>9, <1>10, <1>11, <1>12

LEMMA FileIInvInit == FileInit => FileIInv
<1> SUFFICES ASSUME FileInit PROVE FileIInv
  OBVIOUS
<1>1. NoPath \in Paths /\ DOMAIN disk = {} /\ home \in Seq(Paths) /\ lines = 0
  BY DEF FileInit, NoPath, Paths, Kinds, lines
<1>2. FileTypeOK
  BY <1>1, FileSinkAssumption DEF FileInit, FileTypeOK
<1>3. SoundFiles(disk) /\ SparedOnly(disk) /\ BuffersAreHome /\ BadHaveFailed
  BY <1>1 DEF FileInit, SoundFiles, SparedOnly, Listed, BuffersAreHome, BadHaveFailed
<1>4. EveryLineIsSomewhere /\ CutsAreSingle
  BY <1>1 DEF FileInit, EveryLineIsSomewhere, CutsAreSingle
<1> QED
  BY <1>2, <1>3, <1>4 DEF FileIInv

\* What accounts for a line stays true of it.
LEMMA AccountedStays ==
    ASSUME UNCHANGED home, failed \subseteq failed', cut \subseteq cut', expired \subseteq expired',
           NEW l, Accounted(l)
    PROVE  Accounted(l)'
  BY DEF Accounted, AfterFailure, CutOff, OfAge

LEMMA FileStop ==
    ASSUME FileIInv, Restart, NEW opened \in SUBSET Kinds, Stop(opened) PROVE FileIInv'
<1>1. PICK rescued \in SUBSET badStreams : Started(Flushed(rescued), opened, FALSE)
  BY DEF Stop
<1>2. UNCHANGED <<fileClock, removal, home, expired, cut>> /\ writing = "none" /\ writing' = "none" /\ starts' = starts + 1
  BY DEF Restart, Stop
<1> DEFINE F == Flushed(rescued)
<1>3. rescued \in SUBSET Kinds /\ removal.at \in Int /\ removal.at <= fileClock
  BY DEF FileIInv, FileTypeOK
<1>4. SoundFiles(F) /\ SparedOnly(F) /\ \A l \in 1..lines : InItsFile(l) => InFiles(F, l)
  BY <1>3, FlushedIsSound
<1>5. \A f \in Listed(F) :
         removal'.at - F[f].written > RotationPeriod => removal'.stopped \/ f \in removal'.unreadable
  BY <1>2, <1>4 DEF SparedOnly
<1>6. /\ FileTypeOK' /\ SoundFiles(disk)' /\ SparedOnly(disk)' /\ BuffersAreHome' /\ BadHaveFailed'
      /\ lines' = lines /\ failed \subseteq failed'
      /\ \A l \in 1..lines : InFiles(F, l) => InItsFile(l)'
  <2> HIDE DEF F
  <2>1. Started(F, opened, FALSE)
    BY <1>1 DEF F
  <2> QED
    BY <1>2, <1>3, <1>4, <1>5, <2>1, StartedIsSound
<1>7. ASSUME NEW l \in 1..lines PROVE (InItsFile(l) \/ BeingWritten(l) \/ Accounted(l))'
  <2>1. InItsFile(l) \/ Accounted(l)
    BY <1>2 DEF FileIInv, EveryLineIsSomewhere, BeingWritten
  <2>2. CASE InItsFile(l)
    BY <1>4, <1>6, <2>2
  <2>3. CASE Accounted(l)
    BY <1>2, <1>6, <2>3, AccountedStays
  <2> QED
    BY <2>1, <2>2, <2>3
<1>8. CutsAreSingle'
  BY <1>2 DEF FileIInv, CutsAreSingle
<1> QED
  BY <1>6, <1>7, <1>8 DEF FileIInv, EveryLineIsSomewhere

LEMMA FileCrash ==
    ASSUME FileIInv, Restart, NEW opened \in SUBSET Kinds, Crash(opened) PROVE FileIInv'
<1>1. /\ Started(disk, opened, FALSE) /\ writing' = "none"
      /\ cut' = cut \cup IF writing = "none" THEN {} ELSE {<<lines, starts>>}
      /\ UNCHANGED <<fileClock, removal, home, expired>> /\ starts' = starts + 1
  BY DEF Crash, Restart
<1>2. removal.at \in Int /\ removal.at <= fileClock /\ lines \in Nat
  BY LinesAreCounted DEF FileIInv, FileTypeOK
<1>3. \A f \in Listed(disk) :
         removal'.at - disk[f].written > RotationPeriod => removal'.stopped \/ f \in removal'.unreadable
  BY <1>1 DEF FileIInv, SparedOnly
<1>4. /\ FileTypeOK' /\ SoundFiles(disk)' /\ SparedOnly(disk)' /\ BuffersAreHome' /\ BadHaveFailed'
      /\ lines' = lines /\ failed \subseteq failed'
      /\ \A l \in 1..lines : InFiles(disk, l) => InItsFile(l)'
  <2>1. SoundFiles(disk) /\ removal'.at \in Int /\ removal'.at <= fileClock
    BY <1>1, <1>2 DEF FileIInv
  <2> QED
    BY <1>1, <1>3, <2>1, StartedIsSound
<1>5. ASSUME NEW l \in 1..lines PROVE (InItsFile(l) \/ BeingWritten(l) \/ Accounted(l))'
  <2>1. InItsFile(l) \/ BeingWritten(l) \/ Accounted(l)
    BY DEF FileIInv, EveryLineIsSomewhere
  <2>2. CASE InItsFile(l)
    BY <1>4, <2>2 DEF InItsFile, InFiles
  <2>3. CASE BeingWritten(l)
    <3>1. <<l, starts>> \in cut'
      BY <1>1, <2>3 DEF BeingWritten
    <3> QED
      BY <3>1 DEF Accounted, CutOff
  <2>4. CASE Accounted(l)
    BY <1>1, <1>4, <2>4, AccountedStays
  <2> QED
    BY <2>1, <2>2, <2>3, <2>4
<1>6. CutsAreSingle'
  <2>1. starts \in Nat /\ cut \subseteq Nat \X Nat /\ (\A c \in cut : c[2] < starts) /\ \A c, d \in cut : c[2] = d[2] => c = d
    BY DEF FileIInv, CutsAreSingle
  <2>2. <<lines, starts>> \in Nat \X Nat /\ \A c \in cut' : c \in cut \/ c = <<lines, starts>>
    BY <1>1, <1>2, <2>1
  <2>3. \A c \in cut : c[2] < starts + 1 /\ c[2] # starts
    BY <2>1
  <2> QED
    BY <1>1, <2>1, <2>2, <2>3 DEF CutsAreSingle
<1> QED
  BY <1>4, <1>5, <1>6 DEF FileIInv, EveryLineIsSomewhere

LEMMA FileRestart == FileIInv /\ Restart => FileIInv'
  BY FileStop, FileCrash DEF Restart

LEMMA FileRotation == FileIInv /\ onRotationRemind => FileIInv'
<1> SUFFICES ASSUME FileIInv, onRotationRemind PROVE FileIInv'
  OBVIOUS
<1>1. PICK opened \in SUBSET Kinds : rotateFiles(opened)
  BY DEF onRotationRemind
<1>2. PICK rescued \in SUBSET badStreams :
         \E unreadable \in SUBSET OldFiles(Flushed(rescued)) :
         \E stubborn \in SUBSET (OldFiles(Flushed(rescued)) \ unreadable) :
         \E gone \in Removals(Flushed(rescued), unreadable, stubborn) :
            /\ Started(Without(Flushed(rescued), gone), opened, TRUE)
            /\ removal' = [at |-> fileClock, unreadable |-> unreadable, stopped |-> stubborn # {}]
            /\ expired' = expired \cup {<<f, fileClock - Flushed(rescued)[f].written>> : f \in gone}
            /\ UNCHANGED <<writing, fileClock, starts, home, cut>>
  BY <1>1 DEF rotateFiles
<1> DEFINE F == Flushed(rescued)
<1>3. rescued \in SUBSET Kinds /\ writing = "none"
  BY DEF FileIInv, FileTypeOK, onRotationRemind
<1>4. SoundFiles(F) /\ \A l \in 1..lines : InItsFile(l) => InFiles(F, l)
  BY <1>3, FlushedIsSound
<1> HIDE DEF F
<1>5. PICK unreadable \in SUBSET OldFiles(F), stubborn \in SUBSET OldFiles(F), gone \in SUBSET OldFiles(F) :
            /\ gone \in Removals(F, unreadable, stubborn)
            /\ Started(Without(F, gone), opened, TRUE)
            /\ removal' = [at |-> fileClock, unreadable |-> unreadable, stopped |-> stubborn # {}]
            /\ expired' = expired \cup {<<f, fileClock - F[f].written>> : f \in gone}
            /\ UNCHANGED <<writing, fileClock, starts, home, cut>>
  BY <1>2 DEF F, Removals
<1> DEFINE W == Without(F, gone)
<1>6. /\ gone \subseteq OldFiles(F) /\ (stubborn = {} => gone = OldFiles(F) \ unreadable)
      /\ DOMAIN W = DOMAIN F \ gone /\ \A f \in DOMAIN F \ gone : W[f] = F[f]
  BY <1>5 DEF Removals, Without
<1> HIDE DEF W
<1>7. fileClock \in Nat /\ fileClock <= MaxFileTime /\ RotationPeriod \in Nat /\ MaxFileTime \in Nat
  BY FileSinkAssumption DEF FileIInv, FileTypeOK
<1>8. \A f \in DOMAIN F : f \notin config /\ F[f].written \in Nat /\ F[f].written <= fileClock
  <2>1. \A f \in DOMAIN F : ~f.quoted /\ F[f] \in Contents
    BY <1>4 DEF SoundFiles, Paths
  <2> QED
    BY <1>4, <2>1 DEF FileIInv, FileTypeOK, SoundFiles, Contents
<1>9. SoundFiles(W)
  BY <1>4, <1>6 DEF SoundFiles
<1>10. /\ removal'.at = fileClock /\ (removal'.stopped <=> stubborn # {}) /\ removal'.unreadable = unreadable
  BY <1>5
<1>11. ASSUME NEW f \in Listed(W), removal'.at - W[f].written > RotationPeriod
       PROVE  removal'.stopped \/ f \in removal'.unreadable
  <2>1. f \in Listed(F) /\ f \notin gone /\ W[f] = F[f] /\ f \in DOMAIN F
    BY <1>6, <1>11 DEF Listed
  <2>2. f \in OldFiles(F)
    BY <1>8, <1>10, <1>11, <2>1 DEF OldFiles
  <2> QED
    BY <1>6, <1>10, <2>1, <2>2
<1>12. /\ FileTypeOK' /\ SoundFiles(disk)' /\ SparedOnly(disk)' /\ BuffersAreHome' /\ BadHaveFailed'
       /\ lines' = lines /\ failed \subseteq failed'
       /\ \A l \in 1..lines : InFiles(W, l) => InItsFile(l)'
  <2>1. Started(W, opened, TRUE) /\ UNCHANGED <<fileClock, home>> /\ writing' = "none"
    BY <1>3, <1>5 DEF W
  <2>2. removal'.at \in Int /\ removal'.at <= fileClock
    BY <1>7, <1>10
  <2> QED
    BY <1>9, <1>11, <2>1, <2>2, StartedIsSound
<1>13. ASSUME NEW l \in 1..lines PROVE (InItsFile(l) \/ BeingWritten(l) \/ Accounted(l))'
  <2>1. InItsFile(l) \/ Accounted(l)
    BY <1>3 DEF FileIInv, EveryLineIsSomewhere, BeingWritten
  <2>2. CASE InItsFile(l)
    <3>1. InFiles(F, l)
      BY <1>4, <2>2
    <3>2. CASE home[l] \in gone
      <4> DEFINE age == fileClock - F[home[l]].written
      <4>1. <<home[l], age>> \in expired' /\ home' = home
        BY <1>5, <3>2
      <4>2. age \in (RotationPeriod + 1)..MaxFileTime
        BY <1>6, <1>7, <1>8, <3>1, <3>2 DEF OldFiles, InFiles
      <4> HIDE DEF age
      <4> QED
        BY <4>1, <4>2 DEF Accounted, OfAge
    <3>3. CASE home[l] \notin gone
      <4>1. InFiles(W, l)
        BY <1>6, <3>1, <3>3 DEF InFiles
      <4> QED
        BY <1>12, <4>1
    <3> QED
      BY <3>2, <3>3
  <2>3. CASE Accounted(l)
    BY <1>5, <1>12, <2>3, AccountedStays
  <2> QED
    BY <2>1, <2>2, <2>3
<1>14. CutsAreSingle'
  BY <1>5 DEF FileIInv, CutsAreSingle
<1> QED
  BY <1>12, <1>13, <1>14 DEF FileIInv, EveryLineIsSomewhere

LEMMA FileWrite == ASSUME FileIInv, NEW kind \in Kinds, writeToFile(kind) PROVE FileIInv'
<1>1. /\ writing = "none" /\ kind \in openFiles /\ writing' = kind
      /\ home' = Append(home, currentPaths[kind])
      /\ buffered' = IF kind \in badStreams THEN buffered
                     ELSE [buffered EXCEPT ![kind] = buffered[kind] \cup {lines + 1}]
      /\ UNCHANGED <<disk, config, currentPaths, openFiles, badStreams, fileClock, starts, removal, failed,
                     cut, expired>>
  BY DEF writeToFile
<1>2. /\ lines \in Nat /\ lines' = lines + 1 /\ home \in Seq(Paths) /\ home' \in Seq(Paths)
      /\ home'[lines + 1] = currentPaths[kind] /\ \A l \in 1..lines : home'[l] = home[l]
  <2>1. home \in Seq(Paths) /\ currentPaths[kind] \in Paths
    BY DEF FileIInv, FileTypeOK
  <2> QED
    BY <1>1, <2>1 DEF lines
<1>3. /\ buffered' \in [Kinds -> SUBSET Nat]
      /\ \A k \in Kinds : \A l \in buffered'[k] : l \in buffered[k] \/ (k = kind /\ l = lines + 1)
      /\ kind \in badStreams \/ lines + 1 \in buffered'[kind]
  BY <1>1, <1>2 DEF FileIInv, FileTypeOK
<1>4. FileTypeOK'
  <2>1. kind \in openFiles /\ writing' \in openFiles \cup {"none"} /\ home' \in Seq(Paths)
    BY <1>1, <1>2
  <2>2. buffered' \in [Kinds -> SUBSET Nat]
    BY <1>3
  <2>3. UNCHANGED <<config, currentPaths, openFiles, badStreams, fileClock, removal>>
    BY <1>1
  <2> QED
    BY <2>1, <2>2, <2>3 DEF FileIInv, FileTypeOK
<1>5. SoundFiles(disk)' /\ SparedOnly(disk)'
  <2>1. \A f \in DOMAIN disk : \A l \in disk[f].lines : l \in 1..(lines + 1) /\ home'[l] = f
    BY <1>2 DEF FileIInv, SoundFiles
  <2> QED
    BY <1>1, <1>2, <2>1 DEF FileIInv, SoundFiles, SparedOnly, Listed
<1>6. BuffersAreHome'
  <2>1. \A k \in Kinds : \A l \in buffered'[k] : l \in 1..(lines + 1) /\ home'[l] = currentPaths[k]
    BY <1>2, <1>3 DEF FileIInv, BuffersAreHome
  <2>2. \A k \in openFiles : currentPaths[k] \in DOMAIN disk
    BY DEF FileIInv, BuffersAreHome
  <2>3. lines + 1 > 0 /\ (kind \in badStreams' \/ lines + 1 \in buffered'[kind])
    BY <1>1, <1>2, <1>3
  <2>4. currentPaths' = currentPaths /\ openFiles' = openFiles /\ disk' = disk /\ writing' = kind
    BY <1>1
  <2> QED
    BY <1>2, <2>1, <2>2, <2>3, <2>4 DEF BuffersAreHome
<1>7. BadHaveFailed'
  <2>1. ASSUME NEW k \in badStreams
        PROVE  \E n \in 1..(lines + 2) : <<currentPaths[k], n>> \in failed /\ n <= lines + 1
    <3>1. PICK n \in 1..(lines + 1) : <<currentPaths[k], n>> \in failed
      BY DEF FileIInv, BadHaveFailed
    <3>2. n \in 1..(lines + 2) /\ n <= lines + 1
      BY <1>2
    <3> QED
      BY <3>1, <3>2
  <2>2. /\ badStreams' = badStreams /\ currentPaths' = currentPaths /\ failed' = failed
        /\ lines' + 1 = lines + 2 /\ lines' = lines + 1
    BY <1>1, <1>2
  <2>3. ASSUME NEW k \in badStreams'
        PROVE  \E n \in 1..(lines' + 1) : <<currentPaths'[k], n>> \in failed' /\ (writing' = k => n <= lines')
    <3>1. PICK n \in 1..(lines + 2) : <<currentPaths[k], n>> \in failed /\ n <= lines + 1
      BY <2>1, <2>2, <2>3
    <3> QED
      BY <2>2, <3>1
  <2> QED
    BY <2>3 DEF BadHaveFailed
<1>8. ASSUME NEW l \in 1..(lines + 1) PROVE (InItsFile(l) \/ BeingWritten(l) \/ Accounted(l))'
  <2>1. CASE l = lines + 1
    BY <1>1, <1>2, <2>1 DEF BeingWritten, Kinds
  <2>2. CASE l # lines + 1
    <3>1. l \in 1..lines /\ home'[l] = home[l]
      BY <1>2, <2>2
    <3>2. InItsFile(l) \/ Accounted(l)
      BY <1>1, <3>1 DEF FileIInv, EveryLineIsSomewhere, BeingWritten
    <3> QED
      BY <1>1, <3>1, <3>2 DEF InItsFile, Accounted, AfterFailure, CutOff, OfAge
  <2> QED
    BY <2>1, <2>2
<1>9. CutsAreSingle'
  BY <1>1 DEF FileIInv, CutsAreSingle
<1> QED
  BY <1>2, <1>4, <1>5, <1>6, <1>7, <1>8, <1>9 DEF FileIInv, EveryLineIsSomewhere

LEMMA FilePublish == ASSUME FileIInv, publishInfoUnlocked PROVE FileIInv'
<1> DEFINE pending == {kind \in openFiles \ badStreams : buffered[kind] # {}}
<1>1. /\ writing # "none" /\ writing' = "none"
      /\ UNCHANGED <<config, currentPaths, openFiles, fileClock, starts, removal, home, cut, expired>>
  BY DEF publishInfoUnlocked
<1>2. PICK fails \in SUBSET pending :
         /\ disk' = Flushed(pending \ fails)
         /\ buffered' = [kind \in Kinds |-> IF kind \in pending \ fails THEN {} ELSE buffered[kind]]
         /\ badStreams' = badStreams \cup fails
         /\ failed' = failed \cup {<<currentPaths[kind], lines>> : kind \in fails}
  BY DEF publishInfoUnlocked
<1>3. /\ pending \subseteq openFiles /\ openFiles \subseteq Kinds /\ writing \in Kinds /\ writing \in openFiles
      /\ buffered \in [Kinds -> SUBSET Nat]
      /\ writing \in badStreams \/ buffered[writing] = {} \/ writing \in pending
  BY <1>1 DEF FileIInv, FileTypeOK
<1> DEFINE put == pending \ fails
<1>4. put \in SUBSET Kinds /\ fails \subseteq openFiles
  BY <1>3
<1> HIDE DEF pending
<1>5. SoundFiles(Flushed(put)) /\ SparedOnly(Flushed(put)) /\ \A l \in 1..lines : InItsFile(l) => InFiles(Flushed(put), l)
  BY <1>4, FlushedIsSound
<1>6. /\ DOMAIN Flushed(put) = DOMAIN disk
      /\ \A f \in DOMAIN disk : \A l : l \in Flushed(put)[f].lines <=>
            l \in disk[f].lines \/ \E kind \in put : f = currentPaths[kind] /\ l \in buffered[kind]
  BY <1>4, FlushedIs
<1>7. /\ lines' = lines /\ lines \in Nat /\ lines > 0 /\ home[lines] = currentPaths[writing]
      /\ writing \in badStreams \/ lines \in buffered[writing]
      /\ currentPaths[writing] \in DOMAIN disk
  BY <1>1, <1>3, LinesAreCounted DEF FileIInv, BuffersAreHome, lines
<1>8. disk' = Flushed(put) /\ buffered' = [kind \in Kinds |-> IF kind \in put THEN {} ELSE buffered[kind]]
  BY <1>2
<1> HIDE DEF put
<1>9. FileTypeOK'
  <2>1. buffered' \in [Kinds -> SUBSET Nat]
    BY <1>3, <1>8
  <2> QED
    BY <1>1, <1>2, <1>4, <2>1 DEF FileIInv, FileTypeOK
<1>10. SoundFiles(disk)' /\ SparedOnly(disk)'
  BY <1>1, <1>5, <1>7, <1>8 DEF SoundFiles, SparedOnly, Listed
<1>11. BuffersAreHome'
  <2>1. \A kind \in Kinds : \A l \in buffered'[kind] : l \in buffered[kind]
    BY <1>8
  <2> QED
    BY <1>1, <1>6, <1>7, <1>8, <2>1 DEF FileIInv, BuffersAreHome
<1>12. BadHaveFailed'
  <2>1. ASSUME NEW kind \in badStreams' PROVE \E n \in 1..(lines + 1) : <<currentPaths[kind], n>> \in failed'
    <3>1. CASE kind \in badStreams
      BY <1>2, <3>1 DEF FileIInv, BadHaveFailed
    <3>2. CASE kind \in fails
      BY <1>2, <1>7, <3>2
    <3> QED
      BY <1>2, <2>1, <3>1, <3>2
  <2>2. \A kind \in badStreams' : writing' # kind
    BY <1>1, <1>2, <1>4 DEF Kinds, FileIInv, FileTypeOK
  <2> QED
    BY <1>1, <1>7, <2>1, <2>2 DEF BadHaveFailed
<1>13. ASSUME NEW l \in 1..lines PROVE (InItsFile(l) \/ BeingWritten(l) \/ Accounted(l))'
  <2>1. InItsFile(l) \/ BeingWritten(l) \/ Accounted(l)
    BY DEF FileIInv, EveryLineIsSomewhere
  <2>2. CASE InItsFile(l)
    BY <1>1, <1>5, <1>8, <2>2 DEF InFiles, InItsFile
  <2>3. CASE BeingWritten(l)
    <3>1. l = lines /\ home[l] = currentPaths[writing]
      BY <1>7, <2>3 DEF BeingWritten
    <3>2. CASE writing \in badStreams
      <4>1. \E n \in 1..l : <<home[l], n>> \in failed
        BY <1>7, <3>1, <3>2 DEF FileIInv, BadHaveFailed
      <4> QED
        BY <1>1, <1>2, <4>1 DEF Accounted, AfterFailure
    <3>3. CASE writing \in fails
      <4>1. <<home[l], l>> \in failed' /\ l \in 1..l
        BY <1>2, <3>1, <3>3
      <4> QED
        BY <1>1, <4>1 DEF Accounted, AfterFailure
    <3>4. CASE writing \notin badStreams /\ writing \notin fails
      <4>1. writing \in put /\ l \in buffered[writing]
        BY <1>3, <1>7, <3>1, <3>4 DEF put
      <4>2. l \in disk'[home[l]].lines /\ home[l] \in DOMAIN disk'
        BY <1>6, <1>7, <1>8, <3>1, <4>1
      <4> QED
        BY <1>1, <4>2 DEF InItsFile
    <3> QED
      BY <3>2, <3>3, <3>4
  <2>4. CASE Accounted(l)
    BY <1>1, <1>2, <2>4, AccountedStays
  <2> QED
    BY <2>1, <2>2, <2>3, <2>4
<1>14. CutsAreSingle'
  BY <1>1 DEF FileIInv, CutsAreSingle
<1> QED
  BY <1>7, <1>9, <1>10, <1>11, <1>12, <1>13, <1>14 DEF FileIInv, EveryLineIsSomewhere

LEMMA FileIInvStep == FileIInv /\ [FileNext]_fileVars => FileIInv'
<1> SUFFICES ASSUME FileIInv, [FileNext]_fileVars PROVE FileIInv'
  OBVIOUS
<1>1. ASSUME fileClock' \in Nat, fileClock <= fileClock', fileClock' <= MaxFileTime,
             UNCHANGED <<disk, config, currentPaths, openFiles, buffered, badStreams, writing, starts,
                         historyVars>>
      PROVE  FileIInv'
  <2>1. UNCHANGED <<removal, home, failed, cut, expired>> /\ lines' = lines
    BY <1>1 DEF historyVars, lines
  <2>2. FileTypeOK'
    BY <1>1, <2>1 DEF FileIInv, FileTypeOK
  <2>3. SoundFiles(disk)'
    <3>1. \A f \in DOMAIN disk : disk[f].written \in Nat /\ disk[f].written <= fileClock /\ fileClock \in Nat
      BY DEF FileIInv, SoundFiles, FileTypeOK, Contents
    <3>2. \A f \in DOMAIN disk : disk[f].written <= fileClock'
      BY <1>1, <3>1
    <3> QED
      BY <1>1, <2>1, <3>2 DEF FileIInv, SoundFiles
  <2>4. SparedOnly(disk)' /\ BuffersAreHome' /\ BadHaveFailed' /\ CutsAreSingle'
    BY <1>1, <2>1 DEF FileIInv, SparedOnly, Listed, BuffersAreHome, BadHaveFailed, CutsAreSingle
  <2>5. EveryLineIsSomewhere'
    BY <1>1, <2>1
    DEF FileIInv, EveryLineIsSomewhere, InItsFile, BeingWritten, Accounted, AfterFailure, CutOff, OfAge
  <2> QED
    BY <2>2, <2>3, <2>4, <2>5 DEF FileIInv
<1>2. fileClock \in Nat /\ fileClock <= MaxFileTime /\ MaxFileTime \in Nat
  BY FileSinkAssumption DEF FileIInv, FileTypeOK
<1>3. CASE UNCHANGED fileVars
  BY <1>1, <1>2, <1>3 DEF fileVars
<1>4. CASE FileTick
  <2>1. fileClock' \in Nat /\ fileClock <= fileClock' /\ fileClock' <= MaxFileTime
    BY <1>2, <1>4 DEF FileTick
  <2> QED
    BY <1>1, <1>4, <2>1 DEF FileTick
<1> QED
  BY <1>3, <1>4, FileRestart, FileRotation, FileWrite, FilePublish, Zenon DEF FileNext, FileStep

LEMMA FileIInvKeepsLines == FileIInv => LinesAreKept
<1> SUFFICES ASSUME FileIInv PROVE LinesAreKept
  OBVIOUS
<1>1. LinesReachTheirFile
  BY DEF LinesReachTheirFile, FileIInv, EveryLineIsSomewhere, Accounted, SoundFiles, CutsAreSingle
<1>2. FilesAreInOrder
  BY DEF FilesAreInOrder, FileIInv, BuffersAreHome, SoundFiles, SparedOnly
<1> QED
  BY <1>1, <1>2 DEF LinesAreKept

\* For all periods, limits and numbers of names tried: through rotations, removals, restarts, crashes
\* and failing writes, every accepted line is in the file that was open for it and in no other, unless
\* the file had failed by then, the line was the one a crash cut off, or the file was removed of age;
\* and a removal spares no old file that it could have removed (file_sink.cpp).
THEOREM FileSinkKeepsLines == FileSpec => []LinesAreKept
  BY FileIInvInit, FileIInvStep, FileIInvKeepsLines, PTL DEF FileSpec

-----------------------------------------------------------------------------
(* GuiConnection.                                                           *)

\* Queued(lambda, about, failed) as one value.
UiLambdas == {"uiConnecting", "uiDisconnected"}
Lambdas == [of : UiLambdas \cup {"connectDone", "closed"}, attempt : 0..MaxAttempts, error : BOOLEAN]

Boxes == [of : {"none", "timeout", "failed"}, attempt : 0..MaxAttempts]
SocketTable == [Attempts -> {"new", "connecting", "open", "closed"}]
OperationTable == [Attempts -> SUBSET {"connect", "read", "write"}]

GuiTypeOK ==
    /\ connecting \in BOOLEAN /\ crossed \in BOOLEAN
    /\ attempts \in 0..MaxAttempts
    /\ clientSocket \in 0..attempts /\ clientConn \in 0..attempts
    /\ connectTimer \in 0..MaxAttempts
    /\ shown \in {"disconnected", "connecting", "connected"}
    /\ timeouts \subseteq Attempts
    /\ handled \subseteq 1..attempts /\ stopping \subseteq 1..attempts
    /\ sockets \in SocketTable
    /\ outstanding \in OperationTable
    /\ qtQueue \in Seq(Lambdas)
    /\ box \in Boxes
    /\ guiFault \in {"none", "null", "nohandler"}

About(n, of, a) == qtQueue[n].of = of /\ qtQueue[n].attempt = a

\* A lambda is about an attempt that was made; one that says a connection has ended finds its
\* socket closed; an attempt is completed once.
QueueIsInOrder ==
    /\ \A n \in 1..Len(qtQueue) :
          /\ qtQueue[n].of \in {"connectDone", "closed"} => qtQueue[n].attempt \in 1..attempts
          /\ qtQueue[n].of = "closed" => sockets[qtQueue[n].attempt] = "closed"
          /\ qtQueue[n].of = "connectDone" => "connect" \notin outstanding[qtQueue[n].attempt]
    /\ \A n, m \in 1..Len(qtQueue) :
          qtQueue[n].of = "connectDone" /\ About(m, "connectDone", qtQueue[n].attempt) => n = m
    /\ \A a \in Attempts : "connect" \in outstanding[a] => a <= attempts

NoneQueued(of) == \A n \in 1..Len(qtQueue) : qtQueue[n].of # of

\* The lambda u is the last one in the queue that shows a state.
LastShown(u) ==
    \E n \in 1..Len(qtQueue) :
        /\ qtQueue[n].of = u
        /\ \A m \in (n + 1)..Len(qtQueue) : qtQueue[m].of \notin UiLambdas

\* What is shown when the queue is empty.
WillShowConnecting == (shown = "connecting" /\ NoneQueued("uiDisconnected")) \/ LastShown("uiConnecting")
WillShowDisconnected == (shown = "disconnected" /\ NoneQueued("uiConnecting")) \/ LastShown("uiDisconnected")

\* Nothing is shown behind the completion of the present attempt.
DoneIsLast ==
    \A n \in 1..Len(qtQueue) : About(n, "connectDone", clientSocket) =>
        \A m \in (n + 1)..Len(qtQueue) : qtQueue[m].of \notin UiLambdas

NotDone == \A n \in 1..Len(qtQueue) : ~About(n, "connectDone", clientSocket)

\* An attempt under way, a message box, a connection and their absence.
AttemptIsInOrder ==
    /\ connectTimer # 0 => connecting /\ box = NoBox
    /\ connecting => clientConn = 0 /\ clientSocket # 0
    /\ connecting /\ box = NoBox => WillShowConnecting /\ DoneIsLast

BoxIsInOrder ==
    box # NoBox =>
        /\ clientConn = 0 /\ clientSocket # 0 /\ box.attempt = clientSocket
        /\ NoneQueued("uiConnecting")
        /\ connecting => NotDone /\ "connect" \notin outstanding[clientSocket]

RestIsInOrder ==
    /\ ~connecting /\ clientConn = 0 /\ box = NoBox => WillShowDisconnected
    /\ clientConn # 0 => shown = "connected" /\ NoneQueued("uiConnecting") /\ NoneQueued("uiDisconnected")

SocketsAreInOrder ==
    /\ \A a \in Attempts : sockets[a] \in {"connecting", "open"} =>
          a \in {clientSocket, clientConn} \cup stopping
    /\ ~connecting /\ clientSocket # 0 => sockets[clientSocket] \notin {"connecting", "open"}

WindowIsInOrder ==
    guiFault = "none" /\ ~crossed =>
        AttemptIsInOrder /\ BoxIsInOrder /\ RestIsInOrder /\ SocketsAreInOrder

GuiIInv == GuiTypeOK /\ QueueIsInOrder /\ WindowIsInOrder

-----------------------------------------------------------------------------
(* The queue of lambdas.                                                    *)

LEMMA LambdasTaken ==
    ASSUME NEW q \in Seq(Lambdas), q # <<>>
    PROVE  /\ Head(q) \in Lambdas /\ Head(q) = q[1] /\ 1 \in 1..Len(q)
           /\ Tail(q) \in Seq(Lambdas) /\ Len(Tail(q)) = Len(q) - 1 /\ Len(q) \in Nat
           /\ \A n \in 1..Len(Tail(q)) : Tail(q)[n] = q[n + 1] /\ n + 1 \in 1..Len(q)
           /\ \A n \in 1..Len(q) : n = 1 \/ (n - 1 \in 1..Len(Tail(q)) /\ Tail(q)[n - 1] = q[n])
<1>1. /\ Len(q) \in Nat /\ Len(q) >= 1 /\ Len(Tail(q)) = Len(q) - 1
      /\ Head(q) = q[1] /\ Head(q) \in Lambdas /\ Tail(q) \in Seq(Lambdas)
      /\ \A n \in 1..(Len(q) - 1) : Tail(q)[n] = q[n + 1]
  OBVIOUS
<1>2. ASSUME NEW n \in 1..Len(q), n # 1
      PROVE  n - 1 \in 1..Len(Tail(q)) /\ Tail(q)[n - 1] = q[n]
  <2>1. n - 1 \in 1..(Len(q) - 1) /\ (n - 1) + 1 = n BY <1>1, <1>2
  <2>2. Tail(q)[n - 1] = q[(n - 1) + 1] BY <2>1, <1>1
  <2> QED BY <2>1, <2>2, <1>1
<1> QED BY <1>1, <1>2

LEMMA LambdaAdded ==
    ASSUME NEW q \in Seq(Lambdas), NEW e \in Lambdas
    PROVE  /\ Append(q, e) \in Seq(Lambdas) /\ Len(Append(q, e)) = Len(q) + 1 /\ Len(q) \in Nat
           /\ \A n \in 1..Len(q) : Append(q, e)[n] = q[n]
           /\ Append(q, e)[Len(q) + 1] = e
           /\ \A n \in 1..(Len(q) + 1) : n \in 1..Len(q) \/ n = Len(q) + 1
BY AppendProperties

\* The first lambda has run, and may have queued one that shows a state; or nothing has.
LEMMA QueueShrinks ==
    ASSUME GuiTypeOK, QueueIsInOrder,
           \/ qtQueue' = qtQueue
           \/ /\ qtQueue # <<>>
              /\ \/ qtQueue' = Tail(qtQueue)
                 \/ \E e \in Lambdas : e.of \in UiLambdas /\ qtQueue' = Append(Tail(qtQueue), e),
           attempts' \in attempts..MaxAttempts,
           \A a \in Attempts : sockets[a] = "closed" => sockets'[a] = "closed",
           \A a \in Attempts : "connect" \in outstanding'[a] => "connect" \in outstanding[a]
    PROVE  QueueIsInOrder'
<1>1. qtQueue \in Seq(Lambdas) /\ attempts \in 0..MaxAttempts BY DEF GuiTypeOK
<1>2. /\ \A a \in 1..attempts : a \in Attempts /\ a \in 1..attempts'
      /\ \A a \in Attempts : a <= attempts => a <= attempts'
  BY <1>1, AttemptsAssumption DEF Attempts
<1>3. CASE qtQueue' = qtQueue BY <1>2, <1>3 DEF QueueIsInOrder, About
<1>4. ASSUME \A n \in 1..Len(qtQueue') :
                \/ qtQueue'[n].of \in UiLambdas
                \/ n + 1 \in 1..Len(qtQueue) /\ qtQueue'[n] = qtQueue[n + 1]
      PROVE  QueueIsInOrder'
  <2>2. ASSUME NEW n \in 1..Len(qtQueue')
        PROVE  /\ qtQueue'[n].of \in {"connectDone", "closed"} => qtQueue'[n].attempt \in 1..attempts'
               /\ qtQueue'[n].of = "closed" => sockets'[qtQueue'[n].attempt] = "closed"
               /\ qtQueue'[n].of = "connectDone" => "connect" \notin outstanding'[qtQueue'[n].attempt]
    <3>1. CASE qtQueue'[n].of \in UiLambdas BY <3>1 DEF UiLambdas
    <3>2. CASE n + 1 \in 1..Len(qtQueue) /\ qtQueue'[n] = qtQueue[n + 1]
      BY <3>2, <1>2 DEF QueueIsInOrder
    <3> QED BY <3>1, <3>2, <1>4
  <2>3. ASSUME NEW n \in 1..Len(qtQueue'), NEW m \in 1..Len(qtQueue'),
               qtQueue'[n].of = "connectDone", About(m, "connectDone", qtQueue[n].attempt)'
        PROVE  n = m
    <3>1. /\ n + 1 \in 1..Len(qtQueue) /\ qtQueue'[n] = qtQueue[n + 1]
          /\ m + 1 \in 1..Len(qtQueue) /\ qtQueue'[m] = qtQueue[m + 1]
      BY <2>3, <1>4 DEF About, UiLambdas
    <3>2. n + 1 = m + 1 BY <3>1, <2>3 DEF QueueIsInOrder, About
    <3> QED BY <3>2
  <2> QED BY <2>2, <2>3, <1>2 DEF QueueIsInOrder
<1>5. CASE qtQueue # <<>> /\ qtQueue' = Tail(qtQueue)
  <2>1. \A n \in 1..Len(qtQueue') : qtQueue'[n] = qtQueue[n + 1] /\ n + 1 \in 1..Len(qtQueue)
    BY <1>1, <1>5, LambdasTaken
  <2> QED BY <2>1, <1>4
<1>6. ASSUME qtQueue # <<>>, NEW e \in Lambdas, e.of \in UiLambdas,
             qtQueue' = Append(Tail(qtQueue), e)
      PROVE  QueueIsInOrder'
  <2> DEFINE t == Tail(qtQueue)
  <2>1. /\ t \in Seq(Lambdas)
        /\ \A n \in 1..Len(t) : t[n] = qtQueue[n + 1] /\ n + 1 \in 1..Len(qtQueue)
    BY <1>1, <1>6, LambdasTaken
  <2>2. /\ qtQueue' = Append(t, e) /\ Len(qtQueue') = Len(t) + 1
        /\ \A n \in 1..Len(t) : Append(t, e)[n] = t[n]
        /\ Append(t, e)[Len(t) + 1] = e
        /\ \A n \in 1..(Len(t) + 1) : n \in 1..Len(t) \/ n = Len(t) + 1
    BY <2>1, <1>6, LambdaAdded
  <2> HIDE DEF t
  <2> QED BY <2>1, <2>2, <1>4, <1>6
<1> QED BY <1>3, <1>5, <1>6

\* A lambda is queued.
LEMMA QueueGrows ==
    ASSUME GuiTypeOK, QueueIsInOrder, NEW e \in Lambdas, qtQueue' = Append(qtQueue, e),
           attempts' \in attempts..MaxAttempts,
           \A a \in 1..attempts : sockets[a] = "closed" => sockets'[a] = "closed",
           \A a \in 1..attempts : "connect" \in outstanding'[a] => "connect" \in outstanding[a],
           \A a \in Attempts : "connect" \in outstanding'[a] => a <= attempts',
           e.of \in {"connectDone", "closed"} => e.attempt \in 1..attempts,
           e.of = "closed" => sockets'[e.attempt] = "closed",
           e.of = "connectDone" =>
               "connect" \in outstanding[e.attempt] /\ "connect" \notin outstanding'[e.attempt]
    PROVE  QueueIsInOrder'
<1>1. qtQueue \in Seq(Lambdas) /\ attempts \in 0..MaxAttempts BY DEF GuiTypeOK
<1> DEFINE l == Len(qtQueue)
<1>2. /\ Len(qtQueue') = l + 1 /\ l \in Nat
      /\ \A n \in 1..l : qtQueue'[n] = qtQueue[n]
      /\ qtQueue'[l + 1] = e
      /\ \A n \in 1..(l + 1) : n \in 1..l \/ n = l + 1
  BY <1>1, LambdaAdded
<1>3. 1..attempts \subseteq 1..attempts' BY <1>1
<1> HIDE DEF l
<1>5. ASSUME NEW n \in 1..(l + 1)
      PROVE  /\ qtQueue'[n].of \in {"connectDone", "closed"} => qtQueue'[n].attempt \in 1..attempts'
             /\ qtQueue'[n].of = "closed" => sockets'[qtQueue'[n].attempt] = "closed"
             /\ qtQueue'[n].of = "connectDone" => "connect" \notin outstanding'[qtQueue'[n].attempt]
  <2>1. CASE n \in 1..l
    <3>1. qtQueue'[n] = qtQueue[n] BY <2>1, <1>2
    <3>2. /\ qtQueue[n].of \in {"connectDone", "closed"} => qtQueue[n].attempt \in 1..attempts
          /\ qtQueue[n].of = "closed" => sockets[qtQueue[n].attempt] = "closed"
          /\ qtQueue[n].of = "connectDone" => "connect" \notin outstanding[qtQueue[n].attempt]
      BY <2>1 DEF QueueIsInOrder, l
    <3> QED BY <3>1, <3>2, <1>3
  <2>2. CASE n = l + 1 BY <2>2, <1>2, <1>3
  <2> QED BY <2>1, <2>2, <1>2
<1>6. ASSUME NEW n \in 1..(l + 1), NEW m \in 1..(l + 1),
             qtQueue'[n].of = "connectDone", About(m, "connectDone", qtQueue[n].attempt)'
      PROVE  n = m
  <2>1. CASE n \in 1..l /\ m \in 1..l BY <2>1, <1>2, <1>6 DEF QueueIsInOrder, About, l
  <2>2. CASE n = l + 1 /\ m \in 1..l
    <3>1. qtQueue[m].of = "connectDone" /\ qtQueue[m].attempt = e.attempt /\ e.of = "connectDone"
      BY <2>2, <1>2, <1>6 DEF About
    <3> QED BY <3>1, <2>2 DEF QueueIsInOrder, l
  <2>3. CASE n \in 1..l /\ m = l + 1
    <3>1. qtQueue[n].of = "connectDone" /\ qtQueue[n].attempt = e.attempt /\ e.of = "connectDone"
      BY <2>3, <1>2, <1>6 DEF About
    <3> QED BY <3>1, <2>3 DEF QueueIsInOrder, l
  <2> QED BY <2>1, <2>2, <2>3, <1>2
<1> QED BY <1>2, <1>5, <1>6 DEF QueueIsInOrder

\* What the first lambda does to the widgets.
LambdaShows ==
    \/ Head(qtQueue).of \notin UiLambdas /\ shown' = shown
    \/ Head(qtQueue).of = "uiConnecting" /\ shown' = "connecting"
    \/ Head(qtQueue).of = "uiDisconnected" /\ shown' = "disconnected"

\* What the lambdas behind the first one promise.
LEMMA PromisesAfterFirst ==
    ASSUME GuiTypeOK, QueueIsInOrder, qtQueue # <<>>, qtQueue' = Tail(qtQueue)
    PROVE  /\ \A of \in UiLambdas : NoneQueued(of) => NoneQueued(of)'
           /\ LambdaShows =>
                 /\ WillShowConnecting => WillShowConnecting'
                 /\ WillShowDisconnected => WillShowDisconnected'
           /\ DoneIsLast /\ clientSocket' = clientSocket => DoneIsLast'
           /\ NotDone /\ clientSocket' = clientSocket => NotDone'
           /\ About(1, "connectDone", clientSocket) =>
                 /\ DoneIsLast => NoneQueued("uiConnecting")' /\ NoneQueued("uiDisconnected")'
                 /\ clientSocket' = clientSocket => NotDone'
<1> DEFINE l == Len(qtQueue)
           r == Len(qtQueue')
<1>1. /\ r = l - 1 /\ l \in Nat /\ 1 \in 1..l /\ Head(qtQueue) = qtQueue[1]
      /\ \A n \in 1..r : qtQueue'[n] = qtQueue[n + 1] /\ n + 1 \in 1..l
      /\ \A n \in 1..l : n = 1 \/ (n - 1 \in 1..r /\ qtQueue'[n - 1] = qtQueue[n])
  BY LambdasTaken DEF GuiTypeOK
<1>2. \A of : NoneQueued(of) <=> \A n \in 1..l : qtQueue[n].of # of BY DEF NoneQueued
<1>3. \A of : NoneQueued(of)' <=> \A n \in 1..r : qtQueue'[n].of # of BY DEF NoneQueued
<1>4. ASSUME NEW of, NoneQueued(of) PROVE NoneQueued(of)' BY <1>1, <1>2, <1>3, <1>4
<1>5. \A n, m \in 1..l :
          qtQueue[n].of = "connectDone" /\ About(m, "connectDone", qtQueue[n].attempt) => n = m
  BY DEF QueueIsInOrder
<1>6. \A u : LastShown(u) <=> \E n \in 1..l : /\ qtQueue[n].of = u
                                         /\ \A m \in (n + 1)..l : qtQueue[m].of \notin UiLambdas
  BY DEF LastShown
<1>7. \A u : LastShown(u)' <=> \E n \in 1..r : /\ qtQueue'[n].of = u
                                          /\ \A m \in (n + 1)..r : qtQueue'[m].of \notin UiLambdas
  BY DEF LastShown
<1>8. DoneIsLast <=> \A n \in 1..l : About(n, "connectDone", clientSocket) =>
                         \A m \in (n + 1)..l : qtQueue[m].of \notin UiLambdas
  BY DEF DoneIsLast
<1>9. DoneIsLast' <=> \A n \in 1..r : About(n, "connectDone", clientSocket)' =>
                         \A m \in (n + 1)..r : qtQueue'[m].of \notin UiLambdas
  BY DEF DoneIsLast
<1>10. NotDone' <=> \A n \in 1..r : ~About(n, "connectDone", clientSocket)' BY DEF NotDone
<1>11. NotDone <=> \A n \in 1..l : ~About(n, "connectDone", clientSocket) BY DEF NotDone
<1> HIDE DEF l, r
\* What follows the place n + 1 of the queue follows the place n of the rest.
<1>12. ASSUME NEW n \in 1..l, NEW k \in 0..r, n = k + 1,
              \A m \in (n + 1)..l : qtQueue[m].of \notin UiLambdas
       PROVE  \A m \in (k + 1)..r : qtQueue'[m].of \notin UiLambdas
  <2>1. ASSUME NEW m \in (k + 1)..r PROVE qtQueue'[m].of \notin UiLambdas
    <3>1. m \in 1..r /\ m + 1 \in (n + 1)..l BY <1>1, <1>12
    <3> QED BY <3>1, <1>1, <1>12
  <2> QED BY <2>1
<1>13. ASSUME NEW u, LastShown(u)
       PROVE  LastShown(u)' \/ (qtQueue[1].of = u /\ \A m \in 1..r : qtQueue'[m].of \notin UiLambdas)
  <2>1. PICK n \in 1..l : /\ qtQueue[n].of = u
                          /\ \A m \in (n + 1)..l : qtQueue[m].of \notin UiLambdas
    BY <1>6, <1>13
  <2>2. CASE n = 1
    <3>1. 0 \in 0..r /\ 0 + 1 = 1 BY <1>1
    <3>2. \A m \in (0 + 1)..r : qtQueue'[m].of \notin UiLambdas BY <2>1, <2>2, <3>1, <1>12
    <3> QED BY <2>1, <2>2, <3>1, <3>2
  <2>3. CASE n # 1
    <3>1. n - 1 \in 1..r /\ qtQueue'[n - 1] = qtQueue[n] BY <2>3, <1>1
    <3>3. n - 1 \in 0..r /\ n = (n - 1) + 1 BY <3>1, <1>1
    <3>2. \A m \in ((n - 1) + 1)..r : qtQueue'[m].of \notin UiLambdas BY <2>1, <3>1, <3>3, <1>12
    <3> QED BY <2>1, <3>1, <3>2, <3>3, <1>7
  <2> QED BY <2>2, <2>3
<1>14. ASSUME LambdaShows
       PROVE  /\ WillShowConnecting => WillShowConnecting'
              /\ WillShowDisconnected => WillShowDisconnected'
  <2>1. \A u \in UiLambdas : (\A m \in 1..r : qtQueue'[m].of \notin UiLambdas) => NoneQueued(u)'
    BY <1>3
  <2>2. "uiConnecting" \in UiLambdas /\ "uiDisconnected" \in UiLambdas BY DEF UiLambdas
  <2>3. \A of : NoneQueued(of) => qtQueue[1].of # of BY <1>1, <1>2
  <2>4. ASSUME LastShown("uiConnecting") PROVE WillShowConnecting'
    <3>1. CASE LastShown("uiConnecting")' BY <3>1 DEF WillShowConnecting
    <3>2. CASE qtQueue[1].of = "uiConnecting" /\ \A m \in 1..r : qtQueue'[m].of \notin UiLambdas
      BY <3>2, <2>1, <2>2, <1>1, <1>14 DEF WillShowConnecting, LambdaShows
    <3> QED BY <3>1, <3>2, <2>4, <1>13
  <2>5. ASSUME LastShown("uiDisconnected") PROVE WillShowDisconnected'
    <3>1. CASE LastShown("uiDisconnected")' BY <3>1 DEF WillShowDisconnected
    <3>2. CASE qtQueue[1].of = "uiDisconnected" /\ \A m \in 1..r : qtQueue'[m].of \notin UiLambdas
      BY <3>2, <2>1, <2>2, <1>1, <1>14 DEF WillShowDisconnected, LambdaShows
    <3> QED BY <3>1, <3>2, <2>5, <1>13
  <2>6. ASSUME shown = "connecting", NoneQueued("uiDisconnected") PROVE WillShowConnecting'
    BY <2>3, <2>6, <1>1, <1>4, <1>14 DEF WillShowConnecting, LambdaShows
  <2>7. ASSUME shown = "disconnected", NoneQueued("uiConnecting") PROVE WillShowDisconnected'
    BY <2>3, <2>7, <1>1, <1>4, <1>14 DEF WillShowDisconnected, LambdaShows
  <2> QED BY <2>4, <2>5, <2>6, <2>7 DEF WillShowConnecting, WillShowDisconnected
<1>15. ASSUME clientSocket' = clientSocket, NEW n \in 1..r, About(n, "connectDone", clientSocket)'
       PROVE  n + 1 \in 1..l /\ About(n + 1, "connectDone", clientSocket)
  BY <1>1, <1>15 DEF About
<1>16. ASSUME DoneIsLast, clientSocket' = clientSocket PROVE DoneIsLast'
  <2>1. ASSUME NEW n \in 1..r, About(n, "connectDone", clientSocket)'
        PROVE  \A m \in (n + 1)..r : qtQueue'[m].of \notin UiLambdas
    <3>1. n + 1 \in 1..l /\ About(n + 1, "connectDone", clientSocket) BY <2>1, <1>15, <1>16
    <3>2. \A m \in ((n + 1) + 1)..l : qtQueue[m].of \notin UiLambdas BY <3>1, <1>8, <1>16
    <3>3. n \in 0..r BY <1>1
    <3> QED BY <3>1, <3>2, <3>3, <1>12
  <2> QED BY <2>1, <1>9
<1>17. ASSUME NotDone, clientSocket' = clientSocket PROVE NotDone' BY <1>10, <1>11, <1>15, <1>17
<1>18. ASSUME About(1, "connectDone", clientSocket)
       PROVE  /\ DoneIsLast => NoneQueued("uiConnecting")' /\ NoneQueued("uiDisconnected")'
              /\ clientSocket' = clientSocket => NotDone'
  <2>1. ASSUME DoneIsLast PROVE NoneQueued("uiConnecting")' /\ NoneQueued("uiDisconnected")'
    <3>1. \A m \in (1 + 1)..l : qtQueue[m].of \notin UiLambdas BY <2>1, <1>1, <1>8, <1>18
    <3>2. 0 \in 0..r /\ 1 = 0 + 1 BY <1>1
    <3>3. \A m \in (0 + 1)..r : qtQueue'[m].of \notin UiLambdas BY <3>1, <3>2, <1>1, <1>12
    <3> QED BY <3>2, <3>3, <1>3 DEF UiLambdas
  <2>2. ASSUME clientSocket' = clientSocket PROVE NotDone'
    <3>1. ASSUME NEW n \in 1..r, About(n, "connectDone", clientSocket)' PROVE FALSE
      <4>1. n + 1 \in 1..l /\ About(n + 1, "connectDone", clientSocket) BY <2>2, <3>1, <1>15
      <4>2. n + 1 = 1 BY <4>1, <1>1, <1>5, <1>18 DEF About
      <4> QED BY <4>2, <1>1
    <3> QED BY <3>1, <1>10
  <2> QED BY <2>1, <2>2
<1> QED BY <1>4, <1>14, <1>16, <1>17, <1>18

\* What the lambdas promise with one more behind them.
LEMMA PromisesWithOneMore ==
    ASSUME GuiTypeOK, NEW e \in Lambdas, qtQueue' = Append(qtQueue, e)
    PROVE  /\ \A of : NoneQueued(of) /\ e.of # of => NoneQueued(of)'
           /\ e.of \notin UiLambdas /\ shown' = shown =>
                 /\ WillShowConnecting => WillShowConnecting'
                 /\ WillShowDisconnected => WillShowDisconnected'
           /\ e.of \notin UiLambdas /\ DoneIsLast /\ clientSocket' = clientSocket => DoneIsLast'
           /\ e.of = "uiConnecting" => WillShowConnecting'
           /\ e.of = "uiDisconnected" => WillShowDisconnected'
           /\ NotDone /\ clientSocket' = clientSocket
                 /\ ~(e.of = "connectDone" /\ e.attempt = clientSocket) => NotDone'
<1> DEFINE l == Len(qtQueue)
<1>1. /\ Len(qtQueue') = l + 1 /\ l \in Nat
      /\ \A n \in 1..l : qtQueue'[n] = qtQueue[n]
      /\ qtQueue'[l + 1] = e
      /\ \A n \in 1..(l + 1) : n \in 1..l \/ n = l + 1
  BY LambdaAdded DEF GuiTypeOK
<1>2. \A of : NoneQueued(of) <=> \A n \in 1..l : qtQueue[n].of # of BY DEF NoneQueued
<1>3. \A of : NoneQueued(of)' <=> \A n \in 1..(l + 1) : qtQueue'[n].of # of BY <1>1 DEF NoneQueued
<1>4. \A u : LastShown(u) <=> \E n \in 1..l : /\ qtQueue[n].of = u
                                         /\ \A m \in (n + 1)..l : qtQueue[m].of \notin UiLambdas
  BY DEF LastShown
<1>5. \A u : LastShown(u)' <=>
          \E n \in 1..(l + 1) : /\ qtQueue'[n].of = u
                                /\ \A m \in (n + 1)..(l + 1) : qtQueue'[m].of \notin UiLambdas
  BY <1>1 DEF LastShown
<1>6. DoneIsLast <=> \A n \in 1..l : About(n, "connectDone", clientSocket) =>
                         \A m \in (n + 1)..l : qtQueue[m].of \notin UiLambdas
  BY DEF DoneIsLast
<1>7. DoneIsLast' <=> \A n \in 1..(l + 1) : About(n, "connectDone", clientSocket)' =>
                         \A m \in (n + 1)..(l + 1) : qtQueue'[m].of \notin UiLambdas
  BY <1>1 DEF DoneIsLast
<1>8. NotDone' <=> \A n \in 1..(l + 1) : ~About(n, "connectDone", clientSocket)'
  BY <1>1 DEF NotDone
<1>9. NotDone <=> \A n \in 1..l : ~About(n, "connectDone", clientSocket) BY DEF NotDone
<1> HIDE DEF l
<1>10. \A of : NoneQueued(of) /\ e.of # of => NoneQueued(of)' BY <1>1, <1>2, <1>3
<1>11. ASSUME NEW n \in 1..l, e.of \notin UiLambdas,
              \A m \in (n + 1)..l : qtQueue[m].of \notin UiLambdas
       PROVE  \A m \in (n + 1)..(l + 1) : qtQueue'[m].of \notin UiLambdas
  <2>1. ASSUME NEW m \in (n + 1)..(l + 1) PROVE qtQueue'[m].of \notin UiLambdas
    <3>1. m = l + 1 \/ (m \in (n + 1)..l /\ m \in 1..l) BY <1>1
    <3> QED BY <3>1, <1>1, <1>11
  <2> QED BY <2>1
<1>12. ASSUME NEW u, LastShown(u), e.of \notin UiLambdas PROVE LastShown(u)'
  <2>1. PICK n \in 1..l : /\ qtQueue[n].of = u
                          /\ \A m \in (n + 1)..l : qtQueue[m].of \notin UiLambdas
    BY <1>4, <1>12
  <2>2. n \in 1..(l + 1) /\ qtQueue'[n] = qtQueue[n] BY <1>1
  <2> QED BY <2>1, <2>2, <1>5, <1>11, <1>12
<1>13. LastShown(e.of)'
  <2>1. l + 1 \in 1..(l + 1) /\ ((l + 1) + 1)..(l + 1) = {} BY <1>1
  <2> QED BY <2>1, <1>1, <1>5
<1>14. ASSUME e.of \notin UiLambdas, shown' = shown
       PROVE  /\ WillShowConnecting => WillShowConnecting'
              /\ WillShowDisconnected => WillShowDisconnected'
  <2>1. e.of # "uiConnecting" /\ e.of # "uiDisconnected" BY <1>14 DEF UiLambdas
  <2> QED BY <2>1, <1>10, <1>12, <1>14 DEF WillShowConnecting, WillShowDisconnected
<1>15. ASSUME e.of \notin UiLambdas, DoneIsLast, clientSocket' = clientSocket PROVE DoneIsLast'
  <2>1. ASSUME NEW n \in 1..(l + 1), About(n, "connectDone", clientSocket)'
        PROVE  \A m \in (n + 1)..(l + 1) : qtQueue'[m].of \notin UiLambdas
    <3>1. CASE n \in 1..l
      <4>1. About(n, "connectDone", clientSocket) BY <3>1, <2>1, <1>1, <1>15 DEF About
      <4> QED BY <3>1, <4>1, <1>6, <1>11, <1>15
    <3>2. CASE n = l + 1
      <4>1. (n + 1)..(l + 1) = {} BY <3>2, <1>1
      <4> QED BY <4>1
    <3> QED BY <3>1, <3>2, <1>1
  <2> QED BY <2>1, <1>7
<1>16. ASSUME NotDone, clientSocket' = clientSocket,
              ~(e.of = "connectDone" /\ e.attempt = clientSocket)
       PROVE  NotDone'
  BY <1>1, <1>8, <1>9, <1>16 DEF About
<1> QED BY <1>10, <1>13, <1>14, <1>15, <1>16 DEF WillShowConnecting, WillShowDisconnected

\* With the queue and the window as they were, the promises are.
LEMMA PromisesKept ==
    ASSUME qtQueue' = qtQueue
    PROVE  /\ \A of : NoneQueued(of) => NoneQueued(of)'
           /\ shown' = shown /\ WillShowConnecting => WillShowConnecting'
           /\ shown' = shown /\ WillShowDisconnected => WillShowDisconnected'
           /\ clientSocket' = clientSocket /\ DoneIsLast => DoneIsLast'
           /\ clientSocket' = clientSocket /\ NotDone => NotDone'
BY DEF NoneQueued, LastShown, WillShowConnecting, WillShowDisconnected, DoneIsLast, NotDone, About

-----------------------------------------------------------------------------
(* The steps keep the types.                                                *)

LEMMA QueuedIsTyped ==
    ASSUME GuiTypeOK,
           NEW of \in UiLambdas \cup {"connectDone", "closed"},
           NEW a \in 0..MaxAttempts, NEW error \in BOOLEAN
    PROVE  /\ [of |-> of, attempt |-> a, error |-> error] \in Lambdas
           /\ Queued(of, a, error) = Append(qtQueue, [of |-> of, attempt |-> a, error |-> error])
           /\ Queued(of, a, error) \in Seq(Lambdas)
<1>1. [of |-> of, attempt |-> a, error |-> error] \in Lambdas BY DEF Lambdas
<1> QED BY <1>1, LambdaAdded DEF Queued, GuiTypeOK

LEMMA GuiTypesKept ==
    ASSUME GuiTypeOK, QueueIsInOrder, [GuiNext]_guiVars
    PROVE  GuiTypeOK'
<1> USE AttemptsAssumption
<1>1. /\ 0 \in 0..MaxAttempts /\ attempts \in 0..MaxAttempts /\ 0 \in 0..attempts
      /\ \A a \in 1..attempts : a \in 0..attempts
      /\ "uiConnecting" \in UiLambdas /\ "uiDisconnected" \in UiLambdas
      /\ \A a \in 1..attempts : a \in Attempts
      /\ \A a \in Attempts : a \in 0..MaxAttempts
  BY DEF GuiTypeOK, UiLambdas, Attempts
<1>14. /\ NoBox \in Boxes
      /\ \A of \in {"timeout", "failed"}, a \in 0..MaxAttempts : [of |-> of, attempt |-> a] \in Boxes
      /\ \A b \in Boxes : b.attempt \in 0..MaxAttempts
  BY <1>1 DEF Boxes, NoBox
<1>15. \A a : \A state \in {"new", "connecting", "open", "closed"} :
          [sockets EXCEPT ![a] = state] \in SocketTable
  BY DEF SocketTable, GuiTypeOK
<1>16. /\ \A a : \A O \in SUBSET {"connect", "read", "write"} :
             [outstanding EXCEPT ![a] = O] \in OperationTable
      /\ \A a \in Attempts : outstanding[a] \in SUBSET {"connect", "read", "write"}
  BY DEF OperationTable, GuiTypeOK
<1>2. CASE onIpButtonClicked
  <2>1. CASE cancelConnection
    <3>1. qtQueue' \in Seq(Lambdas) BY <2>1, <1>1, QueuedIsTyped DEF cancelConnection
    <3>2. sockets' \in SocketTable
      BY <2>1, <1>15 DEF cancelConnection
    <3> QED BY <2>1, <3>1, <3>2, <1>1 DEF cancelConnection, GuiTypeOK
  <2>2. CASE Disconnect
    <3>1. qtQueue' \in Seq(Lambdas) BY <2>2, <1>1, QueuedIsTyped DEF Disconnect
    <3>2. handled' \subseteq 1..attempts /\ stopping' \subseteq 1..attempts
      BY <2>2 DEF Disconnect, GuiTypeOK
    <3> QED BY <2>2, <3>1, <3>2, <1>1 DEF Disconnect, GuiTypeOK
  <2>3. CASE makeConnection
    <3>1. /\ attempts' \in 0..MaxAttempts /\ attempts' \in Attempts /\ attempts < attempts'
          /\ clientSocket' \in 0..attempts' /\ clientConn' \in 0..attempts'
          /\ handled' \subseteq 1..attempts' /\ stopping' \subseteq 1..attempts'
      BY <2>3 DEF makeConnection, GuiTypeOK, Attempts
    <3>2. /\ qtQueue' \in Seq(Lambdas)
          /\ connecting' \in BOOLEAN /\ connectTimer' \in 0..MaxAttempts
          /\ timeouts' \subseteq Attempts
          /\ sockets' \in SocketTable
          /\ outstanding' \in OperationTable
      <4>1. CASE UNCHANGED <<connecting, connectTimer, timeouts, sockets, outstanding, qtQueue>>
        BY <4>1 DEF GuiTypeOK
      <4>2. CASE /\ connecting' = TRUE
                 /\ connectTimer' = attempts'
                 /\ timeouts' = timeouts \cup {attempts'}
                 /\ sockets' = [sockets EXCEPT ![attempts'] = "connecting"]
                 /\ outstanding' = [outstanding EXCEPT ![attempts'] = {"connect"}]
                 /\ qtQueue' = Queued("uiConnecting", 0, FALSE)
        <5>1. qtQueue' \in Seq(Lambdas) BY <4>2, <1>1, QueuedIsTyped
        <5> QED BY <4>2, <5>1, <3>1, <1>15, <1>16 DEF GuiTypeOK
      <4> QED BY <4>1, <4>2, <2>3 DEF makeConnection
    <3> QED BY <2>3, <3>1, <3>2 DEF makeConnection, GuiTypeOK
  <2> QED BY <1>2, <2>1, <2>2, <2>3 DEF onIpButtonClicked
<1>3. CASE SendToDaemon 
  <2>1. outstanding' \in OperationTable BY <1>3 DEF SendToDaemon, OperationTable, GuiTypeOK
  <2> QED BY <1>3, <2>1 DEF SendToDaemon, windowVars, GuiTypeOK
<1>4. CASE ProgressEnds BY <1>4, <1>1 DEF ProgressEnds, ioVars, GuiTypeOK
<1>5. CASE DismissBox
  <2>1. sockets' \in SocketTable /\ box' \in Boxes BY <1>5, <1>14, <1>15 DEF DismissBox
  <2> QED BY <1>5, <1>1, <2>1 DEF DismissBox, GuiTypeOK
<1>6. CASE QtStep
  <2> DEFINE l == Head(qtQueue)
  <2>1. /\ l \in Lambdas /\ l = qtQueue[1] /\ 1 \in 1..Len(qtQueue)
        /\ Tail(qtQueue) \in Seq(Lambdas) /\ qtQueue # <<>>
    BY <1>6, LambdasTaken DEF QtStep, GuiTypeOK
  <2>2. l.error \in BOOLEAN /\ l.attempt \in 0..MaxAttempts BY <2>1 DEF Lambdas
  <2>3. l.of \in {"connectDone", "closed"} => l.attempt \in 1..attempts
    BY <2>1 DEF QueueIsInOrder
  <2> HIDE DEF l
  <2>4. ASSUME NEW state \in {"connecting", "disconnected"}, ShowState(state) PROVE GuiTypeOK'
    BY <2>1, <2>4 DEF ShowState, ioVars, GuiTypeOK
  <2>5. CASE l.of = "connectDone" /\ ConnectDone(l.attempt, l.error)
    <3>1. l.attempt \in 1..attempts BY <2>3, <2>5
    <3>2. l.attempt \in 0..MaxAttempts /\ timeouts \ {l.attempt} \subseteq timeouts BY <2>2
    <3>3. box' \in Boxes BY <2>5, <3>2, <1>14 DEF ConnectDone, GuiTypeOK
    <3>4. outstanding' \in OperationTable 
      <4>1. {"read", "write"} \in SUBSET {"connect", "read", "write"} OBVIOUS
      <4>2. \/ outstanding' = outstanding
            \/ outstanding' = [outstanding EXCEPT ![l.attempt] = {"read", "write"}]
        BY <2>5 DEF ConnectDone
      <4>3. outstanding \in OperationTable BY DEF GuiTypeOK
      <4> QED BY <4>1, <4>2, <4>3 DEF OperationTable
    <3>5. /\ connecting' \in BOOLEAN /\ clientSocket' \in 0..attempts /\ clientConn' \in 0..attempts
          /\ handled' \subseteq 1..attempts /\ shown' \in {"disconnected", "connecting", "connected"}
      BY <2>5, <3>1, <1>1 DEF ConnectDone, GuiTypeOK
    <3> QED BY <2>1, <2>5, <3>2, <3>3, <3>4, <3>5, <1>1 DEF ConnectDone, GuiTypeOK
  <2>6. CASE l.of = "closed" /\ ConnectionClosed(l.attempt, l.error)
    <3>1. qtQueue' \in Seq(Lambdas)
      <4>1. [of |-> "uiDisconnected", attempt |-> 0, error |-> FALSE] \in Lambdas
        BY <1>1 DEF Lambdas
      <4> QED BY <2>1, <2>6, <4>1, LambdaAdded DEF ConnectionClosed
    <3>2. shown' \in {"disconnected", "connecting", "connected"} /\ crossed' \in BOOLEAN
      BY <2>6 DEF ConnectionClosed, GuiTypeOK
    <3>3. /\ clientConn' \in 0..attempts /\ handled' \subseteq 1..attempts
          /\ guiFault' \in {"none", "null", "nohandler"}
      BY <2>6, <1>1 DEF ConnectionClosed, GuiTypeOK
    <3> QED BY <2>6, <3>1, <3>2, <3>3 DEF ConnectionClosed, GuiTypeOK
  <2> QED BY <1>6, <2>4, <2>5, <2>6 DEF QtStep, l
<1>7. ASSUME NEW a \in Attempts, ConnectTimeout(a) PROVE GuiTypeOK'
  <2>1. sockets' \in SocketTable /\ box' \in Boxes
    BY <1>7, <1>1, <1>14, <1>15 DEF ConnectTimeout, GuiTypeOK
  <2>2. connecting' \in BOOLEAN /\ connectTimer' \in 0..MaxAttempts
    BY <1>7, <1>1 DEF ConnectTimeout, GuiTypeOK
  <2> QED BY <1>7, <2>1, <2>2 DEF ConnectTimeout, GuiTypeOK
<1>8. ASSUME NEW a \in Attempts, ConnectCompletes(a) PROVE GuiTypeOK'
  <2>1. qtQueue' \in Seq(Lambdas) BY <1>8, <1>1, QueuedIsTyped DEF ConnectCompletes
  <2>2. sockets' \in SocketTable /\ outstanding' \in OperationTable
    BY <1>8, <1>15, <1>16 DEF ConnectCompletes, GuiTypeOK
  <2> QED BY <1>8, <2>1, <2>2 DEF ConnectCompletes, windowVars, GuiTypeOK
<1>9. ASSUME NEW a \in Attempts, CloseWithError(a)
      PROVE  qtQueue' \in Seq(Lambdas) /\ sockets' \in SocketTable
  <2>1. \A e \in BOOLEAN : Queued("closed", a, e) \in Seq(Lambdas) BY <1>1, QueuedIsTyped
  <2> QED BY <1>9, <2>1, <1>15 DEF CloseWithError, GuiTypeOK
<1>10. ASSUME NEW a \in Attempts, BadFrame(a) PROVE GuiTypeOK'
  BY <1>9, <1>10 DEF BadFrame, windowVars, GuiTypeOK
<1>11. ASSUME NEW a \in Attempts, NEW operation \in {"read", "write"}, OperationFails(a, operation)
       PROVE  GuiTypeOK'
  <2>1. outstanding' \in OperationTable BY <1>11, <1>16 DEF OperationFails
  <2> QED BY <1>9, <1>11, <2>1 DEF OperationFails, windowVars, GuiTypeOK
<1>12. ASSUME NEW a \in Attempts, PacketArrives(a) \/ WriteDone(a) \/ PostedClose(a)
       PROVE  GuiTypeOK'
  <2>1. sockets' \in SocketTable
    BY <1>12, <1>15 DEF PacketArrives, WriteDone, PostedClose, ioVars, GuiTypeOK
  <2>2. outstanding' \in OperationTable
    <3>1. outstanding[a] \ {"write"} \in SUBSET {"connect", "read", "write"} BY <1>16
    <3>2. \/ outstanding' = outstanding
          \/ outstanding' = [outstanding EXCEPT ![a] = outstanding[a] \ {"write"}]
      BY <1>12 DEF PacketArrives, WriteDone, PostedClose, ioVars
    <3>3. outstanding \in OperationTable BY DEF GuiTypeOK
    <3> QED BY <3>1, <3>2, <3>3 DEF OperationTable
  <2> QED BY <1>12, <2>1, <2>2 DEF PacketArrives, WriteDone, PostedClose, windowVars, ioVars, GuiTypeOK
<1>13. CASE UNCHANGED guiVars BY <1>13 DEF guiVars, GuiTypeOK
<1> QED BY <1>2, <1>3, <1>4, <1>5, <1>6, <1>7, <1>8, <1>10, <1>11, <1>12, <1>13 DEF GuiNext

-----------------------------------------------------------------------------
(* The steps keep the order.                                                *)

LEMMA MakingKeepsOrder ==
    ASSUME GuiIInv, Clickable, makeConnection
    PROVE  QueueIsInOrder' /\ WindowIsInOrder'
<1> USE AttemptsAssumption
<1>1. /\ GuiTypeOK /\ QueueIsInOrder /\ guiFault = "none" /\ box = NoBox /\ box' = box
      /\ ~connecting /\ clientConn = 0 /\ clientConn' = 0 /\ shown' = shown
      /\ attempts' = attempts + 1 /\ clientSocket' = attempts' /\ stopping' = stopping
      /\ guiFault' = guiFault /\ crossed' = crossed
  BY DEF GuiIInv, Clickable, makeConnection
<1>2. /\ attempts \in 0..MaxAttempts /\ attempts' \in attempts..MaxAttempts /\ attempts' \in Attempts
      /\ attempts' \notin 1..attempts /\ attempts' # 0 /\ \A a \in 1..attempts : a # attempts'
      /\ \A a \in 0..attempts : a # attempts'
  BY <1>1 DEF GuiTypeOK, makeConnection, Attempts
<1>3. clientSocket # attempts' /\ attempts' \notin stopping
  BY <1>1, <1>2 DEF GuiTypeOK
<1>4. CASE UNCHANGED <<connecting, connectTimer, timeouts, sockets, outstanding, qtQueue>>
  <2>1. QueueIsInOrder' BY <1>1, <1>2, <1>4, QueueShrinks
  <2>2. ASSUME ~crossed PROVE AttemptIsInOrder' /\ BoxIsInOrder' /\ RestIsInOrder' /\ SocketsAreInOrder'
    <3>1. AttemptIsInOrder /\ BoxIsInOrder /\ RestIsInOrder /\ SocketsAreInOrder
      BY <1>1, <2>2 DEF GuiIInv, WindowIsInOrder
    <3>2. AttemptIsInOrder' BY <1>1, <1>4, <3>1 DEF AttemptIsInOrder
    <3>3. BoxIsInOrder' BY <1>1, <3>1 DEF BoxIsInOrder, NoBox
    <3>4. RestIsInOrder' BY <1>1, <1>4, <3>1, PromisesKept DEF RestIsInOrder
    <3>5. ASSUME NEW a \in Attempts, sockets'[a] \in {"connecting", "open"} PROVE a \in stopping
      BY <1>1, <1>4, <3>1, <3>5 DEF SocketsAreInOrder, Attempts
    <3>6. sockets'[attempts'] \notin {"connecting", "open"} BY <3>5, <1>2, <1>3
    <3>7. SocketsAreInOrder' BY <1>1, <1>4, <3>5, <3>6 DEF SocketsAreInOrder
    <3> QED BY <3>2, <3>3, <3>4, <3>7
  <2> QED BY <1>1, <2>1, <2>2 DEF WindowIsInOrder
<1>5. CASE /\ connecting' = TRUE
           /\ connectTimer' = attempts'
           /\ timeouts' = timeouts \cup {attempts'}
           /\ sockets' = [sockets EXCEPT ![attempts'] = "connecting"]
           /\ outstanding' = [outstanding EXCEPT ![attempts'] = {"connect"}]
           /\ qtQueue' = Queued("uiConnecting", 0, FALSE)
  <2> DEFINE e == [of |-> "uiConnecting", attempt |-> 0, error |-> FALSE]
  <2>1. e \in Lambdas /\ qtQueue' = Append(qtQueue, e) /\ e.of = "uiConnecting"
    <3>1. "uiConnecting" \in UiLambdas \cup {"connectDone", "closed"} /\ 0 \in 0..MaxAttempts
      BY DEF UiLambdas
    <3> QED BY <3>1, <1>1, <1>5, QueuedIsTyped
  <2> HIDE DEF e
  <2>2. QueueIsInOrder'
    <3>1. \A a \in 1..attempts : sockets[a] = "closed" => sockets'[a] = "closed"
      BY <1>1, <1>2, <1>5 DEF GuiTypeOK, SocketTable, Attempts
    <3>2. \A a \in Attempts : a # attempts' => outstanding'[a] = outstanding[a]
      BY <1>1, <1>5 DEF GuiTypeOK, OperationTable
    <3>3. \A a \in 1..attempts : "connect" \in outstanding'[a] => "connect" \in outstanding[a]
      BY <3>2, <1>2 DEF Attempts
    <3>4. \A a \in Attempts : "connect" \in outstanding'[a] => a <= attempts'
      BY <3>2, <1>1, <1>2 DEF Attempts, QueueIsInOrder
    <3> QED BY <1>1, <1>2, <2>1, <3>1, <3>3, <3>4, QueueGrows
  <2>3. ASSUME ~crossed PROVE AttemptIsInOrder' /\ BoxIsInOrder' /\ RestIsInOrder' /\ SocketsAreInOrder'
    <3>1. SocketsAreInOrder BY <1>1, <2>3 DEF GuiIInv, WindowIsInOrder
    <3>2. WillShowConnecting' BY <1>1, <2>1, PromisesWithOneMore
    <3>3. DoneIsLast'
      <4>1. ASSUME NEW n \in 1..Len(qtQueue'), About(n, "connectDone", clientSocket)' PROVE FALSE
        <5>1. n \in 1..Len(qtQueue) /\ qtQueue'[n] = qtQueue[n]
          BY <2>1, <4>1, <1>1, LambdaAdded DEF GuiTypeOK, About
        <5>2. qtQueue[n].attempt \in 1..attempts BY <5>1, <4>1, <1>1 DEF QueueIsInOrder, About
        <5> QED BY <5>1, <5>2, <4>1, <1>1, <1>2 DEF About
      <4> QED BY <4>1 DEF DoneIsLast
    <3>4. AttemptIsInOrder' BY <1>1, <1>2, <1>5, <3>2, <3>3 DEF AttemptIsInOrder
    <3>5. BoxIsInOrder' BY <1>1 DEF BoxIsInOrder, NoBox
    <3>6. RestIsInOrder' BY <1>1, <1>5 DEF RestIsInOrder
    <3>7. ASSUME NEW a \in Attempts, sockets'[a] \in {"connecting", "open"}
          PROVE  a = attempts' \/ a \in stopping
      <4>1. a = attempts' \/ sockets'[a] = sockets[a] BY <1>1, <1>5 DEF GuiTypeOK, SocketTable
      <4> QED BY <4>1, <1>1, <3>1, <3>7 DEF SocketsAreInOrder, Attempts
    <3>8. SocketsAreInOrder' BY <1>1, <1>5, <3>7 DEF SocketsAreInOrder
    <3> QED BY <3>4, <3>5, <3>6, <3>8
  <2> QED BY <1>1, <2>2, <2>3 DEF WindowIsInOrder
<1> QED BY <1>4, <1>5 DEF makeConnection

\* What the two ways to end a connection queue.
LEMMA DisconnectingIsQueued ==
    ASSUME GuiTypeOK, qtQueue' = Queued("uiDisconnected", 0, FALSE)
    PROVE  /\ WillShowDisconnected'
           /\ \E e \in Lambdas : e.of \in UiLambdas /\ qtQueue' = Append(qtQueue, e)
<1>1. /\ "uiDisconnected" \in UiLambdas \cup {"connectDone", "closed"} /\ 0 \in 0..MaxAttempts
      /\ "uiDisconnected" \in UiLambdas
  BY AttemptsAssumption DEF UiLambdas
<1> DEFINE e == [of |-> "uiDisconnected", attempt |-> 0, error |-> FALSE]
<1>2. e \in Lambdas /\ qtQueue' = Append(qtQueue, e) /\ e.of = "uiDisconnected"
  BY <1>1, QueuedIsTyped
<1> HIDE DEF e
<1> QED BY <1>1, <1>2, PromisesWithOneMore

LEMMA EndingKeepsOrder ==
    ASSUME GuiIInv, Clickable, cancelConnection \/ Disconnect
    PROVE  QueueIsInOrder' /\ WindowIsInOrder'
<1> USE AttemptsAssumption
<1>1. /\ GuiTypeOK /\ QueueIsInOrder /\ guiFault = "none" /\ box = NoBox /\ box' = box
      /\ guiFault' = guiFault /\ crossed' = crossed /\ attempts' = attempts
      /\ outstanding' = outstanding /\ qtQueue' = Queued("uiDisconnected", 0, FALSE)
  BY DEF GuiIInv, Clickable, cancelConnection, Disconnect
<1>2. WillShowDisconnected' BY <1>1, DisconnectingIsQueued
<1>3. PICK e \in Lambdas : e.of \in UiLambdas /\ qtQueue' = Append(qtQueue, e)
  BY <1>1, DisconnectingIsQueued
<1>4. /\ \A a \in Attempts : sockets[a] = "closed" => sockets'[a] = "closed"
      /\ \A a \in 1..attempts : a \in Attempts
      /\ attempts' \in attempts..MaxAttempts
  BY <1>1 DEF cancelConnection, Disconnect, GuiTypeOK, SocketTable, Attempts
<1>5. QueueIsInOrder'
  <2>1. \A a \in Attempts : "connect" \in outstanding'[a] => a <= attempts'
    BY <1>1 DEF QueueIsInOrder
  <2>2. e.of # "connectDone" /\ e.of # "closed" BY <1>3 DEF UiLambdas
  <2> QED BY <1>1, <1>3, <1>4, <2>1, <2>2, QueueGrows
<1>6. ASSUME ~crossed PROVE AttemptIsInOrder' /\ BoxIsInOrder' /\ RestIsInOrder' /\ SocketsAreInOrder'
  <2>1. AttemptIsInOrder /\ SocketsAreInOrder BY <1>1, <1>6 DEF GuiIInv, WindowIsInOrder
  <2>2. BoxIsInOrder' BY <1>1 DEF BoxIsInOrder, NoBox
  <2>3. CASE cancelConnection
    <3>1. ~connecting' /\ connectTimer' = 0 /\ clientSocket' = 0 /\ clientConn' = 0 /\ stopping' = stopping
      BY <2>1, <2>3 DEF cancelConnection, AttemptIsInOrder
    <3>2. AttemptIsInOrder' BY <3>1 DEF AttemptIsInOrder
    <3>3. RestIsInOrder' BY <1>2, <3>1 DEF RestIsInOrder
    <3>4. \A a \in Attempts : sockets'[a] = IF a = clientSocket THEN "closed" ELSE sockets[a]
      BY <1>1, <2>3 DEF cancelConnection, GuiTypeOK, SocketTable
    <3>5. clientConn = 0 BY <2>1, <2>3 DEF cancelConnection, AttemptIsInOrder
    <3>6. SocketsAreInOrder' BY <2>1, <3>1, <3>4, <3>5 DEF SocketsAreInOrder
    <3> QED BY <2>2, <3>2, <3>3, <3>6
  <2>4. CASE Disconnect
    <3>1. /\ ~connecting' /\ connectTimer' = connectTimer /\ clientConn' = 0
          /\ clientSocket' = clientSocket /\ ~connecting /\ sockets' = sockets
          /\ stopping' = stopping \cup {clientConn}
      BY <2>4 DEF Disconnect
    <3>2. AttemptIsInOrder' BY <2>1, <3>1 DEF AttemptIsInOrder
    <3>3. RestIsInOrder' BY <1>2, <3>1 DEF RestIsInOrder
    <3>4. SocketsAreInOrder' BY <2>1, <3>1 DEF SocketsAreInOrder
    <3> QED BY <2>2, <3>2, <3>3, <3>4
  <2> QED BY <2>3, <2>4
<1> QED BY <1>1, <1>5, <1>6 DEF WindowIsInOrder

LEMMA BoxesKeepOrder ==
    ASSUME GuiIInv,
           \/ SendToDaemon \/ ProgressEnds \/ DismissBox
           \/ \E a \in Attempts : ConnectTimeout(a)
    PROVE  QueueIsInOrder' /\ WindowIsInOrder'
<1> USE AttemptsAssumption
<1>1. /\ GuiTypeOK /\ QueueIsInOrder /\ guiFault = "none" /\ guiFault' = guiFault
      /\ crossed' = crossed /\ attempts' = attempts /\ qtQueue' = qtQueue
      /\ clientConn' = clientConn /\ stopping' = stopping
  BY DEF GuiIInv, Clickable, SendToDaemon, ProgressEnds, DismissBox, ConnectTimeout, windowVars, ioVars
<1>2. attempts' \in attempts..MaxAttempts BY <1>1 DEF GuiTypeOK
<1>3. \A a \in Attempts : sockets'[a] = sockets[a] \/ sockets'[a] = "closed"
  BY <1>1 DEF SendToDaemon, ProgressEnds, DismissBox, ConnectTimeout, windowVars, ioVars,
              GuiTypeOK, SocketTable
<1>4. \A a \in Attempts : "connect" \in outstanding'[a] <=> "connect" \in outstanding[a]
  BY <1>1 DEF SendToDaemon, ProgressEnds, DismissBox, ConnectTimeout, windowVars, ioVars,
              GuiTypeOK, OperationTable
<1>5. QueueIsInOrder' BY <1>1, <1>2, <1>3, <1>4, QueueShrinks
<1>6. ASSUME ~crossed PROVE AttemptIsInOrder' /\ BoxIsInOrder' /\ RestIsInOrder' /\ SocketsAreInOrder'
  <2>1. AttemptIsInOrder /\ BoxIsInOrder /\ RestIsInOrder /\ SocketsAreInOrder
    BY <1>1, <1>6 DEF GuiIInv, WindowIsInOrder
  <2>2. \A a \in Attempts : sockets'[a] \in {"connecting", "open"} => sockets[a] \in {"connecting", "open"}
    BY <1>3
  <2>3. clientSocket # 0 => clientSocket \in Attempts BY <1>1 DEF GuiTypeOK, Attempts
  <2>7. NoBox' = NoBox BY DEF NoBox
  <2>4. CASE SendToDaemon \/ ProgressEnds
    <3>1. /\ connecting' = connecting /\ clientSocket' = clientSocket /\ shown' = shown
          /\ box' = box /\ (connectTimer' = connectTimer \/ connectTimer' = 0)
      BY <2>4 DEF SendToDaemon, ProgressEnds, windowVars
    <3>6. /\ WillShowConnecting => WillShowConnecting'
          /\ WillShowDisconnected => WillShowDisconnected'
          /\ (DoneIsLast => DoneIsLast') /\ (NotDone => NotDone')
          /\ NoneQueued("uiConnecting") => NoneQueued("uiConnecting")'
          /\ NoneQueued("uiDisconnected") => NoneQueued("uiDisconnected")'
      BY <1>1, <3>1, PromisesKept
    <3>2. AttemptIsInOrder' BY <1>1, <2>1, <2>7, <3>1, <3>6 DEF AttemptIsInOrder
    <3>3. BoxIsInOrder' BY <1>1, <1>4, <2>1, <2>3, <2>7, <3>1, <3>6 DEF BoxIsInOrder
    <3>4. RestIsInOrder' BY <1>1, <2>1, <2>7, <3>1, <3>6 DEF RestIsInOrder
    <3>5. SocketsAreInOrder' BY <1>1, <2>1, <2>2, <2>3, <3>1 DEF SocketsAreInOrder
    <3> QED BY <3>2, <3>3, <3>4, <3>5
  <2>5. CASE DismissBox
    <3>1. /\ ~connecting' /\ clientSocket' = 0 /\ shown' = "disconnected" /\ box' = NoBox
          /\ connectTimer' = connectTimer /\ box # NoBox
          /\ sockets' = [sockets EXCEPT ![box.attempt] = "closed"]
      BY <2>5 DEF DismissBox
    <3>2. box.attempt = clientSocket /\ clientConn = 0 /\ connectTimer = 0 /\ NoneQueued("uiConnecting")
      BY <2>1, <3>1 DEF AttemptIsInOrder, BoxIsInOrder
    <3>3. AttemptIsInOrder' BY <3>1, <3>2 DEF AttemptIsInOrder
    <3>4. BoxIsInOrder' BY <3>1 DEF BoxIsInOrder, NoBox
    <3>5. RestIsInOrder' BY <1>1, <3>1, <3>2, PromisesKept DEF RestIsInOrder, WillShowDisconnected
    <3>6. sockets'[clientSocket] = "closed" \/ clientSocket \notin Attempts
      BY <1>1, <3>1, <3>2 DEF GuiTypeOK, SocketTable
    <3>7. SocketsAreInOrder' BY <1>1, <2>1, <2>2, <3>1, <3>6 DEF SocketsAreInOrder
    <3> QED BY <3>3, <3>4, <3>5, <3>7
  <2>6. ASSUME NEW a \in Attempts, ConnectTimeout(a)
        PROVE  AttemptIsInOrder' /\ BoxIsInOrder' /\ RestIsInOrder' /\ SocketsAreInOrder'
    <3>1. /\ clientSocket' = clientSocket /\ shown' = shown /\ outstanding' = outstanding
          /\ NoneQueued("uiConnecting")
      BY <2>6 DEF ConnectTimeout, NoneQueued
    <3>2. CASE UNCHANGED <<connecting, connectTimer, sockets, box>>
      <4>5. /\ WillShowConnecting => WillShowConnecting'
            /\ WillShowDisconnected => WillShowDisconnected'
            /\ (DoneIsLast => DoneIsLast') /\ (NotDone => NotDone')
            /\ NoneQueued("uiConnecting") => NoneQueued("uiConnecting")'
            /\ NoneQueued("uiDisconnected") => NoneQueued("uiDisconnected")'
        BY <1>1, <3>1, PromisesKept
      <4>1. AttemptIsInOrder' BY <1>1, <2>1, <2>7, <3>1, <3>2, <4>5 DEF AttemptIsInOrder
      <4>2. BoxIsInOrder' BY <1>1, <2>1, <2>7, <3>1, <3>2, <4>5 DEF BoxIsInOrder
      <4>3. RestIsInOrder' BY <1>1, <2>1, <2>7, <3>1, <3>2, <4>5 DEF RestIsInOrder
      <4>4. SocketsAreInOrder' BY <1>1, <2>1, <3>1, <3>2 DEF SocketsAreInOrder
      <4> QED BY <4>1, <4>2, <4>3, <4>4
    <3>3. CASE /\ Current(a)
               /\ connecting' = FALSE
               /\ connectTimer' = 0
               /\ sockets' = [sockets EXCEPT ![a] = "closed"]
               /\ box' = [of |-> "timeout", attempt |-> a]
      <4>1. /\ clientSocket = a /\ clientConn = 0 /\ a # 0 /\ box' # NoBox /\ box'.attempt = a
            /\ ~connecting' /\ connectTimer' = 0
        BY <2>1, <3>3 DEF Current, AttemptIsInOrder, NoBox, Attempts
      <4>2. AttemptIsInOrder' BY <4>1 DEF AttemptIsInOrder
      <4>3. NoneQueued("uiConnecting")' BY <1>1, <3>1, PromisesKept
      <4>5. BoxIsInOrder' BY <1>1, <3>1, <4>1, <4>3 DEF BoxIsInOrder
      <4>6. RestIsInOrder' BY <1>1, <2>7, <4>1 DEF RestIsInOrder
      <4>7. sockets'[a] = "closed" BY <1>1, <3>3 DEF GuiTypeOK, SocketTable
      <4>8. SocketsAreInOrder' BY <1>1, <2>1, <2>2, <3>1, <4>1, <4>7 DEF SocketsAreInOrder
      <4> QED BY <4>2, <4>5, <4>6, <4>8
    <3> QED BY <2>6, <3>2, <3>3 DEF ConnectTimeout
  <2> QED BY <2>4, <2>5, <2>6
<1> QED BY <1>1, <1>5, <1>6 DEF WindowIsInOrder

\* A lambda that shows a state.
LEMMA ShowingKeepsOrder ==
    ASSUME GuiIInv, guiFault = "none", qtQueue # <<>>,
           \/ Head(qtQueue).of = "uiConnecting" /\ ShowState("connecting")
           \/ Head(qtQueue).of = "uiDisconnected" /\ ShowState("disconnected")
    PROVE  QueueIsInOrder' /\ WindowIsInOrder'
<1> USE AttemptsAssumption
<1>1. /\ GuiTypeOK /\ QueueIsInOrder /\ guiFault' = guiFault /\ crossed' = crossed
      /\ attempts' = attempts /\ qtQueue' = Tail(qtQueue) /\ clientConn' = clientConn
      /\ stopping' = stopping /\ sockets' = sockets /\ outstanding' = outstanding /\ box' = box
      /\ clientSocket' = clientSocket /\ connecting' = connecting /\ connectTimer' = connectTimer
  BY DEF GuiIInv, ShowState, ioVars
<1>2. attempts' \in attempts..MaxAttempts BY <1>1 DEF GuiTypeOK
<1>3. QueueIsInOrder' BY <1>1, <1>2, QueueShrinks
<1>4. LambdaShows /\ "uiConnecting" \in UiLambdas /\ "uiDisconnected" \in UiLambdas
  BY DEF LambdaShows, ShowState, UiLambdas
<1>5. /\ \A of \in UiLambdas : NoneQueued(of) => NoneQueued(of)'
      /\ WillShowConnecting => WillShowConnecting'
      /\ WillShowDisconnected => WillShowDisconnected'
      /\ DoneIsLast => DoneIsLast'
      /\ NotDone => NotDone'
  BY <1>1, <1>4, PromisesAfterFirst
<1>6. ASSUME ~crossed PROVE AttemptIsInOrder' /\ BoxIsInOrder' /\ RestIsInOrder' /\ SocketsAreInOrder'
  <2>1. AttemptIsInOrder /\ BoxIsInOrder /\ RestIsInOrder /\ SocketsAreInOrder
    BY <1>1, <1>6 DEF GuiIInv, WindowIsInOrder
  <2>2. ~(NoneQueued("uiConnecting") /\ NoneQueued("uiDisconnected"))
    <3>1. 1 \in 1..Len(qtQueue) /\ Head(qtQueue) = qtQueue[1]
      BY <1>1, LambdasTaken DEF GuiTypeOK
    <3> QED BY <3>1 DEF NoneQueued
  <2>7. NoBox' = NoBox BY DEF NoBox
  <2>8. NoneQueued("uiConnecting") => NoneQueued("uiConnecting")' BY <1>4, <1>5
  <2>3. AttemptIsInOrder' BY <1>1, <1>5, <2>1, <2>7 DEF AttemptIsInOrder
  <2>4. BoxIsInOrder' BY <1>1, <1>5, <2>1, <2>7, <2>8 DEF BoxIsInOrder
  <2>5. RestIsInOrder' BY <1>1, <1>5, <2>1, <2>2, <2>7 DEF RestIsInOrder
  <2>6. SocketsAreInOrder' BY <1>1, <2>1 DEF SocketsAreInOrder
  <2> QED BY <2>3, <2>4, <2>5, <2>6
<1> QED BY <1>1, <1>3, <1>6 DEF WindowIsInOrder

\* The completion of an attempt, of the present one or of another.
LEMMA CompletionKeepsOrder ==
    ASSUME GuiIInv, guiFault = "none", qtQueue # <<>>, Head(qtQueue).of = "connectDone",
           ConnectDone(Head(qtQueue).attempt, Head(qtQueue).error)
    PROVE  QueueIsInOrder' /\ WindowIsInOrder'
<1> USE AttemptsAssumption
<1> DEFINE a == Head(qtQueue).attempt
           error == Head(qtQueue).error
<1>1. /\ GuiTypeOK /\ QueueIsInOrder /\ guiFault' = guiFault /\ crossed' = crossed
      /\ attempts' = attempts /\ qtQueue' = Tail(qtQueue) /\ stopping' = stopping
      /\ sockets' = sockets /\ connectTimer' = 0
  BY DEF GuiIInv, ConnectDone
<1>2. /\ attempts' \in attempts..MaxAttempts /\ \A b \in 1..attempts : b \in Attempts /\ b # 0
  BY <1>1 DEF GuiTypeOK, Attempts
<1>3. 1 \in 1..Len(qtQueue) /\ Head(qtQueue) = qtQueue[1]
  BY <1>1, LambdasTaken DEF GuiTypeOK
<1>4. a \in 1..attempts /\ "connect" \notin outstanding[a]
  BY <1>1, <1>3 DEF QueueIsInOrder
<1>5. \/ UNCHANGED <<connecting, clientSocket, clientConn, shown, outstanding, box>>
      \/ /\ Current(a) /\ error
         /\ box' = [of |-> "failed", attempt |-> a]
         /\ UNCHANGED <<connecting, clientSocket, clientConn, shown, outstanding>>
      \/ /\ Current(a) /\ connecting' = FALSE /\ clientSocket' = 0 /\ clientConn' = a
         /\ shown' = "connected" /\ box' = box
         /\ outstanding' = [outstanding EXCEPT ![a] = {"read", "write"}]
  BY DEF ConnectDone
<1>6. \A b \in Attempts : "connect" \in outstanding'[b] => "connect" \in outstanding[b]
  <2>1. outstanding \in OperationTable BY <1>1 DEF GuiTypeOK
  <2>2. \/ outstanding' = outstanding
        \/ outstanding' = [outstanding EXCEPT ![a] = {"read", "write"}]
    BY <1>5
  <2> HIDE DEF a
  <2> QED BY <2>1, <2>2 DEF OperationTable
<1>7. QueueIsInOrder' BY <1>1, <1>2, <1>6, QueueShrinks
<1>8. /\ "uiConnecting" \in UiLambdas /\ "uiDisconnected" \in UiLambdas
      /\ Head(qtQueue).of \notin UiLambdas
  BY DEF UiLambdas
<1>9. /\ \A of \in UiLambdas : NoneQueued(of) => NoneQueued(of)'
      /\ shown' = shown /\ WillShowConnecting => WillShowConnecting'
      /\ shown' = shown /\ WillShowDisconnected => WillShowDisconnected'
      /\ clientSocket' = clientSocket /\ DoneIsLast => DoneIsLast'
      /\ clientSocket' = clientSocket /\ NotDone => NotDone'
      /\ About(1, "connectDone", clientSocket) /\ DoneIsLast =>
            NoneQueued("uiConnecting")' /\ NoneQueued("uiDisconnected")'
      /\ About(1, "connectDone", clientSocket) /\ clientSocket' = clientSocket => NotDone'
  BY <1>1, <1>8, PromisesAfterFirst DEF LambdaShows
<1>10. Current(a) => About(1, "connectDone", clientSocket) BY <1>3 DEF Current, About
<1> HIDE DEF a, error
<1>11. ASSUME ~crossed PROVE AttemptIsInOrder' /\ BoxIsInOrder' /\ RestIsInOrder' /\ SocketsAreInOrder'
  <2>1. AttemptIsInOrder /\ BoxIsInOrder /\ RestIsInOrder /\ SocketsAreInOrder
    BY <1>1, <1>11 DEF GuiIInv, WindowIsInOrder
  <2>2. NoBox' = NoBox BY DEF NoBox
  <2>3. /\ NoneQueued("uiConnecting") => NoneQueued("uiConnecting")'
        /\ NoneQueued("uiDisconnected") => NoneQueued("uiDisconnected")'
    BY <1>8, <1>9
  <2>4. CASE UNCHANGED <<connecting, clientSocket, clientConn, shown, outstanding, box>>
    <3>1. AttemptIsInOrder' BY <1>1, <1>9, <2>1, <2>2, <2>4 DEF AttemptIsInOrder
    <3>2. BoxIsInOrder' BY <1>9, <2>1, <2>2, <2>3, <2>4 DEF BoxIsInOrder
    <3>3. RestIsInOrder' BY <1>9, <2>1, <2>2, <2>3, <2>4 DEF RestIsInOrder
    <3>4. SocketsAreInOrder' BY <1>1, <2>1, <2>4 DEF SocketsAreInOrder
    <3> QED BY <3>1, <3>2, <3>3, <3>4
  <2>5. CASE /\ Current(a) /\ error
             /\ box' = [of |-> "failed", attempt |-> a]
             /\ UNCHANGED <<connecting, clientSocket, clientConn, shown, outstanding>>
    <3>1. /\ clientSocket = a /\ a # 0 /\ connecting /\ clientConn = 0
          /\ "connect" \notin outstanding[clientSocket]
      BY <1>2, <1>4, <2>1, <2>5 DEF Current, AttemptIsInOrder
    <3>2. box' # NoBox /\ box'.attempt = a BY <2>5 DEF NoBox
    <3>3. NoneQueued("uiConnecting")'
      <4>1. CASE box = NoBox
        <5>1. DoneIsLast BY <2>1, <3>1, <4>1 DEF AttemptIsInOrder
        <5> QED BY <5>1, <1>9, <1>10, <2>5
      <4>2. CASE box # NoBox
        <5>1. NoneQueued("uiConnecting") BY <2>1, <4>2 DEF BoxIsInOrder
        <5> QED BY <5>1, <2>3
      <4> QED BY <4>1, <4>2
    <3>4. NotDone' BY <1>9, <1>10, <2>5
    <3>5. AttemptIsInOrder' BY <1>1, <2>2, <2>5, <3>1, <3>2 DEF AttemptIsInOrder
    <3>6. BoxIsInOrder' BY <2>5, <3>1, <3>2, <3>3, <3>4 DEF BoxIsInOrder
    <3>7. RestIsInOrder' BY <2>2, <2>5, <3>1, <3>2 DEF RestIsInOrder
    <3>8. SocketsAreInOrder' BY <1>1, <2>1, <2>5 DEF SocketsAreInOrder
    <3> QED BY <3>5, <3>6, <3>7, <3>8
  <2>6. CASE /\ Current(a) /\ connecting' = FALSE /\ clientSocket' = 0 /\ clientConn' = a
             /\ shown' = "connected" /\ box' = box
             /\ outstanding' = [outstanding EXCEPT ![a] = {"read", "write"}]
    <3>1. /\ clientSocket = a /\ a # 0 /\ connecting /\ clientConn = 0
      BY <1>2, <1>4, <2>1, <2>6 DEF Current, AttemptIsInOrder
    <3>2. box = NoBox
      <4>1. SUFFICES ASSUME box # NoBox PROVE FALSE OBVIOUS
      <4>2. NotDone BY <2>1, <3>1, <4>1 DEF BoxIsInOrder
      <4> QED BY <4>2, <1>3, <1>10, <2>6 DEF NotDone
    <3>3. DoneIsLast BY <2>1, <3>1, <3>2 DEF AttemptIsInOrder
    <3>4. NoneQueued("uiConnecting")' /\ NoneQueued("uiDisconnected")' BY <3>3, <1>9, <1>10, <2>6
    <3>5. AttemptIsInOrder' BY <1>1, <2>6 DEF AttemptIsInOrder
    <3>6. BoxIsInOrder' BY <2>2, <2>6, <3>2 DEF BoxIsInOrder
    <3>7. RestIsInOrder' BY <2>6, <3>1, <3>4 DEF RestIsInOrder
    <3>8. SocketsAreInOrder' BY <1>1, <2>1, <2>6, <3>1 DEF SocketsAreInOrder
    <3> QED BY <3>5, <3>6, <3>7, <3>8
  <2> QED BY <1>5, <2>4, <2>5, <2>6
<1> QED BY <1>1, <1>7, <1>11 DEF WindowIsInOrder

\* The disconnect lambda.
LEMMA ClosingKeepsOrder ==
    ASSUME GuiIInv, guiFault = "none", qtQueue # <<>>, Head(qtQueue).of = "closed",
           ConnectionClosed(Head(qtQueue).attempt, Head(qtQueue).error)
    PROVE  QueueIsInOrder' /\ WindowIsInOrder'
<1> USE AttemptsAssumption
<1> DEFINE a == Head(qtQueue).attempt
           error == Head(qtQueue).error
           e == [of |-> "uiDisconnected", attempt |-> 0, error |-> FALSE]
           t == Tail(qtQueue)
<1>1. /\ GuiTypeOK /\ QueueIsInOrder /\ attempts' = attempts /\ stopping' = stopping
      /\ sockets' = sockets /\ outstanding' = outstanding /\ connecting' = connecting
      /\ clientSocket' = clientSocket /\ connectTimer' = connectTimer /\ box' = box
  BY DEF GuiIInv, ConnectionClosed
<1>2. e \in Lambdas /\ e.of \in UiLambdas /\ e.of = "uiDisconnected" /\ attempts' \in attempts..MaxAttempts
  BY <1>1 DEF Lambdas, UiLambdas, GuiTypeOK
<1>3. /\ 1 \in 1..Len(qtQueue) /\ Head(qtQueue) = qtQueue[1]
      /\ t \in Seq(Lambdas) /\ Len(t) = Len(qtQueue) - 1 /\ Len(qtQueue) \in Nat
      /\ \A n \in 1..Len(t) : t[n] = qtQueue[n + 1] /\ n + 1 \in 1..Len(qtQueue)
  BY <1>1, LambdasTaken DEF GuiTypeOK
<1>4. a \in 1..attempts /\ sockets[a] = "closed" /\ a # 0 /\ a \in Attempts
  BY <1>1, <1>3 DEF QueueIsInOrder, GuiTypeOK, Attempts
<1>5. /\ error => qtQueue' = t /\ shown' = "disconnected"
      /\ ~error => qtQueue' = Append(t, e) /\ shown' = shown
      /\ \/ guiFault' = "null"
         \/ clientConn # 0 /\ clientConn' = 0 /\ crossed' = (crossed \/ clientConn # a)
  BY DEF ConnectionClosed
<1> HIDE DEF a, error, e, t
<1>6. QueueIsInOrder' BY <1>1, <1>2, <1>5, QueueShrinks DEF t
<1>7. ASSUME guiFault' = "none", ~crossed'
      PROVE  AttemptIsInOrder' /\ BoxIsInOrder' /\ RestIsInOrder' /\ SocketsAreInOrder'
  <2>1. ~crossed /\ clientConn = a /\ clientConn' = 0 BY <1>5, <1>7
  <2>2. AttemptIsInOrder /\ BoxIsInOrder /\ RestIsInOrder /\ SocketsAreInOrder
    BY <2>1 DEF GuiIInv, WindowIsInOrder
  <2>3. box = NoBox /\ ~connecting /\ connectTimer = 0
    BY <1>4, <2>1, <2>2 DEF AttemptIsInOrder, BoxIsInOrder
  <2>4. NoneQueued("uiConnecting") BY <1>4, <2>1, <2>2 DEF RestIsInOrder
  <2>5. WillShowDisconnected'
    <3>1. CASE error
      <4>1. NoneQueued("uiConnecting")' BY <1>3, <1>5, <2>4, <3>1 DEF NoneQueued
      <4> QED BY <4>1, <3>1, <1>5 DEF WillShowDisconnected
    <3>2. CASE ~error
      <4>1. Len(qtQueue') = Len(t) + 1 /\ Len(t) \in Nat /\ qtQueue'[Len(t) + 1] = e
        BY <1>2, <1>3, <1>5, <3>2, LambdaAdded
      <4>2. Len(t) + 1 \in 1..Len(qtQueue') /\ ((Len(t) + 1) + 1)..Len(qtQueue') = {}
        BY <4>1
      <4>3. LastShown("uiDisconnected")' BY <4>1, <4>2, <1>2 DEF LastShown
      <4> QED BY <4>3 DEF WillShowDisconnected
    <3> QED BY <3>1, <3>2
  <2>6. NoBox' = NoBox BY DEF NoBox
  <2>7. AttemptIsInOrder' BY <1>1, <2>3 DEF AttemptIsInOrder
  <2>8. BoxIsInOrder' BY <1>1, <2>3, <2>6 DEF BoxIsInOrder
  <2>9. RestIsInOrder' BY <2>1, <2>5 DEF RestIsInOrder
  <2>10. SocketsAreInOrder' BY <1>1, <1>4, <2>1, <2>2 DEF SocketsAreInOrder
  <2> QED BY <2>7, <2>8, <2>9, <2>10
<1> QED BY <1>6, <1>7 DEF WindowIsInOrder

\* The io thread, whatever it closes and queues.
LEMMA IoKeepsOrder ==
    ASSUME GuiIInv, GuiTypeOK', NEW a \in Attempts,
           \/ ConnectCompletes(a) \/ BadFrame(a) \/ WriteDone(a) \/ PostedClose(a)
           \/ \E operation \in {"read", "write"} : OperationFails(a, operation)
    PROVE  QueueIsInOrder' /\ WindowIsInOrder'
<1> USE AttemptsAssumption
<1>1. /\ GuiTypeOK /\ QueueIsInOrder /\ guiFault = "none" /\ guiFault' = guiFault
      /\ UNCHANGED windowVars
  BY DEF GuiIInv, ConnectCompletes, BadFrame, WriteDone, PostedClose, OperationFails
<1>2. /\ attempts' \in attempts..MaxAttempts /\ attempts' = attempts
      /\ \A b \in 1..attempts : b \in Attempts
      /\ clientSocket # 0 => clientSocket \in Attempts
  BY <1>1 DEF GuiTypeOK, windowVars, Attempts
<1>3. \A b \in Attempts : "connect" \in outstanding'[b] => "connect" \in outstanding[b]
  BY <1>1, ZenonT(40) DEF ConnectCompletes, BadFrame, WriteDone, PostedClose, OperationFails, GuiTypeOK, OperationTable
<1>4. /\ \A b \in Attempts : sockets[b] = "closed" => sockets'[b] = "closed"
      /\ \A b \in Attempts : sockets'[b] \in {"connecting", "open"} =>
            sockets[b] \in {"connecting", "open"} /\ (b \in stopping => b \in stopping')
  BY <1>1 DEF ConnectCompletes, BadFrame, WriteDone, PostedClose, OperationFails, CloseWithError,
              GuiTypeOK, SocketTable
<1>5. \A b \in Attempts : "connect" \in outstanding'[b] => b <= attempts'
  BY <1>1, <1>2, <1>3 DEF QueueIsInOrder
\* What is queued, if anything.
<1>6. \/ qtQueue' = qtQueue
      \/ /\ qtQueue' = Queued("closed", a, TRUE) \/ qtQueue' = Queued("closed", a, FALSE)
         /\ a \in 1..attempts /\ sockets'[a] = "closed"
      \/ /\ qtQueue' = Queued("connectDone", a, TRUE) \/ qtQueue' = Queued("connectDone", a, FALSE)
         /\ "connect" \in outstanding[a] /\ "connect" \notin outstanding'[a]
  <2>1. CASE ConnectCompletes(a)
    <3>1. "connect" \notin outstanding'[a] BY <1>1, <2>1 DEF ConnectCompletes, GuiTypeOK, OperationTable
    <3> QED BY <2>1, <3>1 DEF ConnectCompletes
  <2>2. CASE WriteDone(a) \/ PostedClose(a) BY <2>2 DEF WriteDone, PostedClose
  <2>3. ASSUME CloseWithError(a)
        PROVE  \/ qtQueue' = qtQueue
               \/ /\ qtQueue' = Queued("closed", a, TRUE) \/ qtQueue' = Queued("closed", a, FALSE)
                  /\ a \in 1..attempts /\ sockets'[a] = "closed"
    <3>1. sockets'[a] = "closed" BY <1>1, <2>3 DEF CloseWithError, GuiTypeOK, SocketTable
    <3>2. CASE a \in handled
      <4>1. a \in 1..attempts BY <1>1, <3>2 DEF GuiTypeOK
      <4>2. \E e \in BOOLEAN : qtQueue' = Queued("closed", a, e) BY <2>3, <3>2 DEF CloseWithError
      <4> QED BY <3>1, <4>1, <4>2
    <3>3. CASE a \notin handled BY <2>3, <3>3 DEF CloseWithError
    <3> QED BY <3>2, <3>3
  <2> QED BY <2>1, <2>2, <2>3 DEF BadFrame, OperationFails
<1> DEFINE Kept ==
      /\ QueueIsInOrder'
      /\ \A of \in UiLambdas : NoneQueued(of) => NoneQueued(of)'
      /\ WillShowConnecting => WillShowConnecting'
      /\ WillShowDisconnected => WillShowDisconnected'
      /\ DoneIsLast => DoneIsLast'
      /\ NotDone /\ "connect" \notin outstanding[clientSocket] => NotDone'
<1>7. Kept
  <2>1. shown' = shown /\ clientSocket' = clientSocket BY <1>1 DEF windowVars
  <2>2. CASE qtQueue' = qtQueue
    <3>1. QueueIsInOrder' BY <1>1, <1>2, <1>3, <1>4, <2>2, QueueShrinks
    <3> QED BY <2>1, <2>2, <3>1, PromisesKept
  <2>3. ASSUME NEW of \in {"closed", "connectDone"}, NEW error \in BOOLEAN,
               qtQueue' = Queued(of, a, error),
               a \in 1..attempts,
               of = "closed" => sockets'[a] = "closed",
               of = "connectDone" => "connect" \in outstanding[a] /\ "connect" \notin outstanding'[a]
        PROVE  Kept
    <3> DEFINE e == [of |-> of, attempt |-> a, error |-> error]
    <3>1. e \in Lambdas /\ qtQueue' = Append(qtQueue, e) /\ e.of = of /\ e.attempt = a
      <4>1. of \in UiLambdas \cup {"connectDone", "closed"} /\ a \in 0..MaxAttempts BY DEF Attempts
      <4> QED BY <1>1, <2>3, <4>1, QueuedIsTyped
    <3> HIDE DEF e
    <3>2. of \notin UiLambdas /\ \A u \in UiLambdas : e.of # u BY <3>1 DEF UiLambdas
    <3>3. QueueIsInOrder' BY <1>1, <1>2, <1>3, <1>4, <1>5, <2>3, <3>1, QueueGrows
    <3>4. /\ \A u \in UiLambdas : NoneQueued(u) => NoneQueued(u)'
          /\ WillShowConnecting => WillShowConnecting'
          /\ WillShowDisconnected => WillShowDisconnected'
          /\ DoneIsLast => DoneIsLast'
      BY <1>1, <2>1, <3>1, <3>2, PromisesWithOneMore
    <3>5. NotDone /\ "connect" \notin outstanding[clientSocket] => NotDone'
      BY <1>1, <2>1, <2>3, <3>1, PromisesWithOneMore
    <3> QED BY <3>3, <3>4, <3>5
  <2>4. "connect" \in outstanding[a] => a \in 1..attempts
    BY <1>1 DEF QueueIsInOrder, GuiTypeOK, Attempts
  <2> HIDE DEF Kept
  <2> QED BY <1>6, <2>2, <2>3, <2>4
<1>8. ASSUME ~crossed PROVE AttemptIsInOrder' /\ BoxIsInOrder' /\ RestIsInOrder' /\ SocketsAreInOrder'
  <2>1. AttemptIsInOrder /\ BoxIsInOrder /\ RestIsInOrder /\ SocketsAreInOrder
    BY <1>1, <1>8 DEF GuiIInv, WindowIsInOrder
  <2>2. NoBox' = NoBox BY DEF NoBox
  <2>3. /\ NoneQueued("uiConnecting") => NoneQueued("uiConnecting")'
        /\ NoneQueued("uiDisconnected") => NoneQueued("uiDisconnected")'
    BY <1>7 DEF UiLambdas
  <2>4. /\ connecting' = connecting /\ clientSocket' = clientSocket /\ clientConn' = clientConn
        /\ shown' = shown /\ connectTimer' = connectTimer /\ box' = box
    BY <1>1 DEF windowVars
  <2>5. AttemptIsInOrder' BY <1>7, <2>1, <2>2, <2>4 DEF AttemptIsInOrder
  <2>6. BoxIsInOrder' BY <1>2, <1>3, <1>7, <2>1, <2>2, <2>3, <2>4 DEF BoxIsInOrder
  <2>7. RestIsInOrder' BY <1>7, <2>1, <2>2, <2>3, <2>4 DEF RestIsInOrder
  <2>8. SocketsAreInOrder' BY <1>2, <1>4, <2>1, <2>4 DEF SocketsAreInOrder
  <2> QED BY <2>5, <2>6, <2>7, <2>8
<1> QED BY <1>1, <1>7, <1>8 DEF WindowIsInOrder, windowVars

-----------------------------------------------------------------------------

LEMMA GuiInductive == GuiIInv /\ [GuiNext]_guiVars => GuiIInv'
<1> SUFFICES ASSUME GuiIInv, [GuiNext]_guiVars PROVE GuiIInv'
  OBVIOUS
<1>1. GuiTypeOK /\ QueueIsInOrder BY DEF GuiIInv
<1>2. GuiTypeOK' BY <1>1, GuiTypesKept
<1>3. CASE onIpButtonClicked
  BY <1>2, <1>3, MakingKeepsOrder, EndingKeepsOrder DEF onIpButtonClicked, GuiIInv
<1>4. CASE \/ SendToDaemon \/ ProgressEnds \/ DismissBox
           \/ \E a \in Attempts : ConnectTimeout(a)
  BY <1>2, <1>4, BoxesKeepOrder DEF GuiIInv
<1>5. CASE QtStep
  BY <1>2, <1>5, ShowingKeepsOrder, CompletionKeepsOrder, ClosingKeepsOrder DEF QtStep, GuiIInv
<1>6. ASSUME NEW a \in Attempts,
             \/ ConnectCompletes(a) \/ BadFrame(a) \/ WriteDone(a) \/ PostedClose(a)
             \/ \E operation \in {"read", "write"} : OperationFails(a, operation)
      PROVE  GuiIInv'
  BY <1>2, <1>6, IoKeepsOrder DEF GuiIInv
<1>7. ASSUME NEW a \in Attempts, PacketArrives(a) PROVE GuiIInv'
  <2>1. /\ attempts' \in attempts..MaxAttempts /\ UNCHANGED <<sockets, outstanding, qtQueue>>
        /\ guiFault' # "none"
    BY <1>1, <1>7, AttemptsAssumption DEF PacketArrives, windowVars, ioVars, GuiTypeOK
  <2>2. QueueIsInOrder' BY <1>1, <2>1, QueueShrinks
  <2> QED BY <1>2, <2>1, <2>2 DEF GuiIInv, WindowIsInOrder
<1>8. CASE UNCHANGED guiVars
  <2>1. QueueIsInOrder' BY <1>1, <1>8 DEF guiVars, QueueIsInOrder, About
  <2>2. WindowIsInOrder'
    BY <1>8 DEF GuiIInv, guiVars, WindowIsInOrder, AttemptIsInOrder, BoxIsInOrder, RestIsInOrder,
                SocketsAreInOrder, WillShowConnecting, WillShowDisconnected, NoneQueued, LastShown,
                DoneIsLast, NotDone, About, NoBox
  <2> QED BY <1>2, <2>1, <2>2 DEF GuiIInv
<1> QED BY <1>3, <1>4, <1>5, <1>6, <1>7, <1>8 DEF GuiNext

LEMMA GuiStarts == GuiInit => GuiIInv
<1> SUFFICES ASSUME GuiInit PROVE GuiIInv
  OBVIOUS
<1>1. /\ Len(qtQueue) = 0 /\ qtQueue \in Seq(Lambdas) /\ 1..0 = {}
      /\ NoBox \in Boxes /\ 0 \in 0..MaxAttempts /\ 0 \in 0..attempts
  BY AttemptsAssumption DEF GuiInit, NoBox, Boxes
<1>2. GuiTypeOK BY <1>1 DEF GuiInit, GuiTypeOK, SocketTable, OperationTable
<1>3. QueueIsInOrder BY <1>1 DEF GuiInit, QueueIsInOrder
<1>4. WillShowDisconnected BY <1>1 DEF GuiInit, WillShowDisconnected, NoneQueued
<1>5. AttemptIsInOrder /\ BoxIsInOrder /\ RestIsInOrder
  BY <1>4 DEF GuiInit, AttemptIsInOrder, BoxIsInOrder, RestIsInOrder
<1>6. SocketsAreInOrder BY DEF GuiInit, SocketsAreInOrder
<1> QED BY <1>2, <1>3, <1>5, <1>6 DEF GuiIInv, WindowIsInOrder

\* With nothing queued, what will be shown is shown.
LEMMA InOrderMatches == GuiIInv => WindowMatchesConnection
<1> SUFFICES ASSUME GuiIInv, guiFault = "none", ~crossed, qtQueue = <<>>, box = NoBox
             PROVE  /\ shown = IF connecting THEN "connecting"
                                ELSE IF clientConn # 0 THEN "connected" ELSE "disconnected"
                    /\ connectTimer # 0 => connecting
                    /\ \A a \in Attempts : sockets[a] \in {"connecting", "open"} =>
                          a \in {clientSocket, clientConn} \cup stopping
  BY DEF WindowMatchesConnection
<1>1. AttemptIsInOrder /\ RestIsInOrder /\ SocketsAreInOrder BY DEF GuiIInv, WindowIsInOrder
<1>2. ~LastShown("uiConnecting") /\ ~LastShown("uiDisconnected") BY DEF LastShown
<1>3. /\ WillShowConnecting => shown = "connecting"
      /\ WillShowDisconnected => shown = "disconnected"
  BY <1>2 DEF WillShowConnecting, WillShowDisconnected
<1> QED BY <1>1, <1>3 DEF AttemptIsInOrder, RestIsInOrder, SocketsAreInOrder

(* Whenever the Qt thread has worked off its queue, the window shows the     *)
(* connection there is, and no socket is left behind (onIpButtonClicked and  *)
(* the lambdas of makeConnection in mainwindow.cpp), for any number of       *)
(* attempts and any interleaving with the io thread.                         *)
THEOREM WindowShowsConnection == GuiSpec => []WindowMatchesConnection
<1>1. GuiInit => GuiIInv BY GuiStarts
<1>2. GuiIInv /\ [GuiNext]_guiVars => GuiIInv' BY GuiInductive
<1>3. GuiIInv => WindowMatchesConnection BY InOrderMatches
<1> QED BY <1>1, <1>2, <1>3, PTL DEF GuiSpec

-----------------------------------------------------------------------------
(* ScanForm: what is on its way between the window and the daemon.          *)

\* No message of a kind on its way; the last one of it is a good one; or there is none and it was
\* settled before.
NoneOf(q, kind) == \A p \in 1..Len(q) : q[p] \notin kind
LastIs(q, kind, good) == \E p \in 1..Len(q) : q[p] \in good /\ \A r \in (p + 1)..Len(q) : q[r] \notin kind
Settles(q, kind, good, before) == (before /\ NoneOf(q, kind)) \/ LastIs(q, kind, good)

\* The settings of a channel; a BiasVoltageCmd is of the bias.
SetOf(c) == [type : {"set", "bias"}, channel : {c}, value : Int]
SetTo(c, v) == [type : {"set", "bias"}, channel : {c}, value : {v}]
Sets == {m \in [type : {"set", "bias"}, channel : Channels, value : Int] : m.type = "bias" => m.channel = scBias}
Inhibits(t) == [type : {t}, on : BOOLEAN]
Ends(t) == {[type |-> t, on |-> FALSE]}
Commands == Sets \cup Inhibits("gpio") \cup Inhibits("mqtt")

Voltages == [Channels -> Int]
ReadBacks == [type : {"dac"}, voltages : Voltages]
MarkOf(n) == [type |-> "mark", mark |-> [count |-> (3 * n) % CounterRange, time |-> n]]
MarksTo(n) == {MarkOf(k) : k \in 1..n}
Marks == [type : {"mark"}, mark : [count : Nat, time : Nat]]

\* A channel that is not stepped has the user's setting, or will have it when its commands arrive.
SettingsArrive == \A c \in Channels \ scMistaken :
    Stepped(c) \/ Settles(scOut, SetOf(c), SetTo(c, scSetting[c]), c \in scRefused \/ scDac[c] = scSetting[c])
InhibitsEnd == ~scActive =>
    /\ Settles(scOut, Inhibits("gpio"), Ends("gpio"), scTold.gpio = FALSE)
    /\ Settles(scOut, Inhibits("mqtt"), Ends("mqtt"), scTold.mqtt = FALSE)

\* During a scan the window knows the setting of the channel that is stepped.
ScanKnows == \A c \in Channels \ scMistaken : Stepped(c) => fLastDacs[c] = scSetting[c]

\* The marks of a queue follow one another up to the n-th, and those after the k-th begin with the next.
InOrder(q, n) ==
    \A p \in 1..Len(q) : q[p].type = "mark" =>
        /\ q[p].mark.time \in 1..n /\ q[p] = MarkOf(q[p].mark.time)
        /\ \A r \in (p + 1)..Len(q) : q[r].type = "mark" => q[p].mark.time < q[r].mark.time
        /\ q[p].mark.time < n => \E r \in (p + 1)..Len(q) : q[r] = MarkOf(q[p].mark.time + 1)
Awaited(q, k, n) ==
    /\ k \in 1..n
    /\ \A p \in 1..Len(q) : q[p].type = "mark" => k < q[p].mark.time
    /\ k < n => \E p \in 1..Len(q) : q[p] = MarkOf(k + 1)

MarksFollow == InOrder(scIn, scMarks)
Measuring ==
    scActive /\ ~scWait => /\ scCounts = 3 * scTime /\ lastTM = MarkOf(lastTM.time).mark
                           /\ Awaited(scIn, lastTM.time, scMarks)
ScanPoints ==
    /\ scActive => scConnected /\ (scStep > 0 =>
          scCurrent = scLimits[1] \/ (scLimits[1] <= scCurrent /\ scCurrent <= scLimits[2]))
    /\ \A p \in scanData : p.counts = 3 * p.time /\ (p.time > scMaxTime \/ (p.counts > scMaxCounts /\ p.time > 1))

ScanTypeOK ==
    /\ scActive \in BOOLEAN /\ scConnected \in BOOLEAN /\ scWait \in BOOLEAN
    /\ scPar \in 0..5 /\ scCurrent \in Int /\ scStep \in Int /\ scLimits \in Int \X Int
    /\ scMaxTime \in Nat /\ scMaxCounts \in Nat /\ scCounts \in Int /\ scTime \in Int
    /\ lastTM \in [count : Nat, time : Nat] /\ scMarks \in Nat
    /\ fLastDacs \in Voltages /\ scDac \in Voltages /\ scSetting \in [Channels -> 0..DacLimit]
    /\ scTold \in [gpio : BOOLEAN, mqtt : BOOLEAN]
    /\ scOut \in Seq(Commands) /\ scIn \in Seq(ReadBacks \cup Marks)
    /\ scConnected \/ (scOut = <<>> /\ scIn = <<>>)

ScanIInv ==
    ScanTypeOK /\ SettingsArrive /\ InhibitsEnd /\ ScanKnows /\ MarksFollow /\ Measuring /\ ScanPoints

LEMMA JoinedIsQueue == \A M : \A s, t \in Seq(M) : s \o t \in Seq(M)
  OBVIOUS

LEMMA JoinedQueue ==
    \A M, kind, good : \A s, t \in Seq(M) :
        /\ NoneOf(s \o t, kind) <=> NoneOf(s, kind) /\ NoneOf(t, kind)
        /\ LastIs(t, kind, good) => LastIs(s \o t, kind, good)
        /\ LastIs(s, kind, good) /\ NoneOf(t, kind) => LastIs(s \o t, kind, good)
<1> SUFFICES ASSUME NEW M, NEW kind, NEW good, NEW s \in Seq(M), NEW t \in Seq(M)
             PROVE  /\ NoneOf(s \o t, kind) <=> NoneOf(s, kind) /\ NoneOf(t, kind)
                    /\ LastIs(t, kind, good) => LastIs(s \o t, kind, good)
                    /\ LastIs(s, kind, good) /\ NoneOf(t, kind) => LastIs(s \o t, kind, good)
  OBVIOUS
<1> DEFINE q == s \o t
           m == Len(s)
           n == Len(t)
<1>1. /\ Len(q) = m + n /\ m \in Nat /\ n \in Nat
      /\ \A p \in 1..m : q[p] = s[p]
      /\ \A p \in 1..n : q[m + p] = t[p]
  OBVIOUS
<1>2. \A p \in (m + 1)..(m + n) : p - m \in 1..n /\ q[p] = t[p - m]
  <2> SUFFICES ASSUME NEW p \in (m + 1)..(m + n) PROVE p - m \in 1..n /\ q[p] = t[p - m] OBVIOUS
  <2>1. p - m \in 1..n /\ m + (p - m) = p BY <1>1
  <2> QED BY <1>1, <2>1
<1> HIDE DEF q
<1>3. NoneOf(q, kind) <=> NoneOf(s, kind) /\ NoneOf(t, kind)
  <2>1. ASSUME NoneOf(q, kind) PROVE NoneOf(s, kind) /\ NoneOf(t, kind)
    <3>1. \A p \in 1..m : p \in 1..Len(q) BY <1>1
    <3>2. \A p \in 1..n : m + p \in 1..Len(q) BY <1>1
    <3> QED BY <1>1, <2>1, <3>1, <3>2 DEF NoneOf
  <2>2. ASSUME NoneOf(s, kind), NoneOf(t, kind) PROVE NoneOf(q, kind)
    <3>1. \A p \in 1..Len(q) : p \in 1..m \/ p \in (m + 1)..(m + n) BY <1>1
    <3> QED BY <1>1, <1>2, <2>2, <3>1 DEF NoneOf
  <2> QED BY <2>1, <2>2
<1>4. ASSUME LastIs(t, kind, good) PROVE LastIs(q, kind, good)
  <2>1. PICK p \in 1..n : t[p] \in good /\ \A r \in (p + 1)..n : t[r] \notin kind BY <1>4 DEF LastIs
  <2>2. m + p \in 1..Len(q) /\ q[m + p] \in good BY <1>1, <2>1
  <2>3. \A r \in (m + p + 1)..Len(q) : r - m \in (p + 1)..n /\ r \in (m + 1)..(m + n) BY <1>1
  <2>4. \A r \in (m + p + 1)..Len(q) : q[r] \notin kind BY <1>2, <2>1, <2>3
  <2> QED BY <2>2, <2>4 DEF LastIs
<1>5. ASSUME LastIs(s, kind, good), NoneOf(t, kind) PROVE LastIs(q, kind, good)
  <2>1. PICK p \in 1..m : s[p] \in good /\ \A r \in (p + 1)..m : s[r] \notin kind BY <1>5 DEF LastIs
  <2>2. p \in 1..Len(q) /\ q[p] \in good BY <1>1, <2>1
  <2>3. \A r \in (p + 1)..Len(q) : (r \in (p + 1)..m /\ r \in 1..m) \/ r \in (m + 1)..(m + n) BY <1>1
  <2>4. \A r \in (p + 1)..Len(q) : q[r] \notin kind BY <1>1, <1>2, <1>5, <2>1, <2>3 DEF NoneOf
  <2> QED BY <2>2, <2>4 DEF LastIs
<1> QED BY <1>3, <1>4, <1>5 DEF q

LEMMA ShorterQueue ==
    \A M, kind, good : \A q \in Seq(M) : q # <<>> =>
        /\ NoneOf(q, kind) <=> Head(q) \notin kind /\ NoneOf(Tail(q), kind)
        /\ LastIs(q, kind, good) => LastIs(Tail(q), kind, good) \/ (Head(q) \in good /\ NoneOf(Tail(q), kind))
<1> SUFFICES ASSUME NEW M, NEW kind, NEW good, NEW q \in Seq(M), q # <<>>
             PROVE  /\ NoneOf(q, kind) <=> Head(q) \notin kind /\ NoneOf(Tail(q), kind)
                    /\ LastIs(q, kind, good) =>
                          LastIs(Tail(q), kind, good) \/ (Head(q) \in good /\ NoneOf(Tail(q), kind))
  OBVIOUS
<1> DEFINE t == Tail(q)
           n == Len(q)
<1>1. n \in Nat \ {0} /\ Len(t) = n - 1 /\ Head(q) = q[1] /\ \A p \in 1..(n - 1) : t[p] = q[p + 1] OBVIOUS
<1> HIDE DEF t, n
<1>2. \A p \in 2..n : p - 1 \in 1..(n - 1) /\ q[p] = t[p - 1]
  <2>1. \A p \in 2..n : p - 1 \in 1..(n - 1) /\ p - 1 + 1 = p BY <1>1
  <2> QED BY <1>1, <2>1
<1>3. NoneOf(q, kind) <=> Head(q) \notin kind /\ NoneOf(t, kind)
  <2>1. ASSUME NoneOf(q, kind) PROVE Head(q) \notin kind /\ NoneOf(t, kind)
    <3>1. 1 \in 1..n /\ \A p \in 1..Len(t) : p + 1 \in 1..n BY <1>1
    <3> QED BY <1>1, <2>1, <3>1 DEF NoneOf, n
  <2>2. ASSUME Head(q) \notin kind, NoneOf(t, kind) PROVE NoneOf(q, kind)
    <3>1. \A p \in 1..n : p = 1 \/ p \in 2..n BY <1>1
    <3> QED BY <1>1, <1>2, <2>2, <3>1 DEF NoneOf, n
  <2> QED BY <2>1, <2>2
<1>4. ASSUME LastIs(q, kind, good) PROVE LastIs(t, kind, good) \/ (Head(q) \in good /\ NoneOf(t, kind))
  <2>1. PICK p \in 1..n : q[p] \in good /\ \A r \in (p + 1)..n : q[r] \notin kind BY <1>4 DEF LastIs, n
  <2>2. CASE p = 1
    <3>1. \A r \in 1..Len(t) : r + 1 \in 2..n BY <1>1
    <3> QED BY <1>1, <2>1, <2>2, <3>1 DEF NoneOf
  <2>3. CASE p # 1
    <3>1. p \in 2..n BY <1>1, <2>3
    <3>2. p - 1 \in 1..Len(t) /\ t[p - 1] \in good BY <1>1, <1>2, <2>1, <3>1
    <3>3. \A r \in (p - 1 + 1)..Len(t) : r + 1 \in (p + 1)..n /\ r \in 1..(n - 1) BY <1>1, <3>1
    <3>4. \A r \in (p - 1 + 1)..Len(t) : t[r] \notin kind BY <1>1, <2>1, <3>3
    <3> QED BY <3>2, <3>4 DEF LastIs
  <2> QED BY <2>2, <2>3
<1> QED BY <1>3, <1>4 DEF t

\* Messages that are sent: they settle what their last one of a kind does.
LEMMA SettledByWhatIsSent ==
    ASSUME NEW M, NEW kind, NEW good, NEW before, NEW s \in Seq(M), NEW t \in Seq(M),
           LastIs(t, kind, good) \/ (NoneOf(t, kind) /\ Settles(s, kind, good, before))
    PROVE  Settles(s \o t, kind, good, before)
BY JoinedQueue DEF Settles

LEMMA EmptyQueue == \A kind, good : NoneOf(<<>>, kind) /\ ~LastIs(<<>>, kind, good)
BY DEF NoneOf, LastIs

LEMMA OneMessage ==
    \A kind, good, x : (NoneOf(<<x>>, kind) <=> x \notin kind) /\ (x \in good => LastIs(<<x>>, kind, good))
<1> SUFFICES ASSUME NEW kind, NEW good, NEW x
             PROVE  (NoneOf(<<x>>, kind) <=> x \notin kind) /\ (x \in good => LastIs(<<x>>, kind, good))
  OBVIOUS
<1>1. Len(<<x>>) = 1 /\ <<x>>[1] = x OBVIOUS
<1>2. \A p : p \in 1..1 <=> p = 1 OBVIOUS
<1>3. \A r : r \notin (1 + 1)..1 OBVIOUS
<1> QED BY <1>1, <1>2, <1>3 DEF NoneOf, LastIs

LEMMA TwoMessages ==
    \A kind, good, x, y :
        /\ NoneOf(<<x, y>>, kind) <=> x \notin kind /\ y \notin kind
        /\ y \in good => LastIs(<<x, y>>, kind, good)
        /\ x \in good /\ y \notin kind => LastIs(<<x, y>>, kind, good)
<1> SUFFICES ASSUME NEW kind, NEW good, NEW x, NEW y
             PROVE  /\ NoneOf(<<x, y>>, kind) <=> x \notin kind /\ y \notin kind
                    /\ y \in good => LastIs(<<x, y>>, kind, good)
                    /\ x \in good /\ y \notin kind => LastIs(<<x, y>>, kind, good)
  OBVIOUS
<1>1. Len(<<x, y>>) = 2 /\ <<x, y>>[1] = x /\ <<x, y>>[2] = y OBVIOUS
<1>2. \A p : p \in 1..2 <=> p = 1 \/ p = 2 OBVIOUS
<1>3. (\A r : r \notin (2 + 1)..2) /\ (\A r : r \in (1 + 1)..2 <=> r = 2) OBVIOUS
<1> QED BY <1>1, <1>2, <1>3 DEF NoneOf, LastIs

LEMMA Adjusted ==
    ASSUME NEW par \in 0..5, NEW v \in Int
    PROVE  /\ adjustScanPar(par, v) \in Seq(Commands)
           /\ NoneOf(adjustScanPar(par, v), Inhibits("gpio")) /\ NoneOf(adjustScanPar(par, v), Inhibits("mqtt"))
           /\ par \notin 1..3 => adjustScanPar(par, v) = <<>>
           /\ par \in 1..3 => /\ LastIs(adjustScanPar(par, v), SetOf(par - 1), SetTo(par - 1, v))
                              /\ \A c \in Channels : c # par - 1 => NoneOf(adjustScanPar(par, v), SetOf(c))
<1>1. CASE par \notin 1..3
  <2>1. adjustScanPar(par, v) = <<>> /\ <<>> \in Seq(Commands) BY <1>1 DEF adjustScanPar
  <2> QED BY <1>1, <2>1, EmptyQueue
<1>2. CASE par \in 1..3
  <2> DEFINE t == IF par = 3 THEN "bias" ELSE "set"
             m == [type |-> t, channel |-> par - 1, value |-> v]
  <2>1. adjustScanPar(par, v) = <<m>> BY <1>2 DEF adjustScanPar, Setting
  <2>2. t \in {"set", "bias"} /\ (t = "bias" => par - 1 = scBias) BY DEF scBias
  <2> HIDE DEF t
  <2>3. m \in Sets /\ m \in SetTo(par - 1, v) BY <1>2, <2>2 DEF Sets, SetTo, Channels
  <2>4. m \in Commands BY <2>3 DEF Commands
  <2>5. m \notin Inhibits("gpio") /\ m \notin Inhibits("mqtt") BY <2>2 DEF Inhibits
  <2>6. \A c \in Channels : c # par - 1 => m \notin SetOf(c) BY DEF SetOf
  <2> HIDE DEF m
  <2>7. <<m>> \in Seq(Commands) BY <2>4
  <2>8. NoneOf(<<m>>, Inhibits("gpio")) /\ NoneOf(<<m>>, Inhibits("mqtt")) BY <2>5, OneMessage
  <2>9. LastIs(<<m>>, SetOf(par - 1), SetTo(par - 1, v)) BY <2>3, OneMessage
  <2>10. \A c \in Channels : c # par - 1 => NoneOf(<<m>>, SetOf(c)) BY <2>6, OneMessage
  <2> QED BY <1>2, <2>1, <2>7, <2>8, <2>9, <2>10
<1> QED BY <1>1, <1>2

LEMMA Inhibited ==
    ASSUME NEW on \in BOOLEAN
    PROVE  /\ Inhibit(on) \in Seq(Commands) /\ \A c : NoneOf(Inhibit(on), SetOf(c))
           /\ ~on => /\ LastIs(Inhibit(on), Inhibits("gpio"), Ends("gpio"))
                     /\ LastIs(Inhibit(on), Inhibits("mqtt"), Ends("mqtt"))
<1> DEFINE g == [type |-> "gpio", on |-> on]
           m == [type |-> "mqtt", on |-> on]
<1>1. Inhibit(on) = <<g, m>> BY DEF Inhibit
<1>2. g \in Commands /\ m \in Commands BY DEF Commands, Inhibits
<1>3. \A c : g \notin SetOf(c) /\ m \notin SetOf(c) BY DEF SetOf
<1>4. m \notin Inhibits("gpio") /\ (~on => g \in Ends("gpio") /\ m \in Ends("mqtt")) BY DEF Inhibits, Ends
<1> HIDE DEF g, m
<1>5. <<g, m>> \in Seq(Commands) BY <1>2
<1>6. \A c : NoneOf(<<g, m>>, SetOf(c)) BY <1>3, TwoMessages
<1>7. ~on => LastIs(<<g, m>>, Inhibits("gpio"), Ends("gpio")) /\ LastIs(<<g, m>>, Inhibits("mqtt"), Ends("mqtt"))
  BY <1>4, TwoMessages
<1> QED BY <1>1, <1>5, <1>6, <1>7

LEMMA Restored ==
    ASSUME ScanTypeOK
    PROVE  /\ Restoring \in Seq(Commands)
           /\ LastIs(Restoring, Inhibits("gpio"), Ends("gpio")) /\ LastIs(Restoring, Inhibits("mqtt"), Ends("mqtt"))
           /\ \A c \in Channels : scPar \notin 1..3 \/ c # scPar - 1 => NoneOf(Restoring, SetOf(c))
           /\ scPar \in 1..3 => LastIs(Restoring, SetOf(scPar - 1), SetTo(scPar - 1, fLastDacs[scPar - 1]))
<1> DEFINE a == IF scPar \in 1..4 THEN adjustScanPar(scPar, fLastDacs[scPar - 1]) ELSE <<>>
           i == Inhibit(FALSE)
<1>1. Restoring = a \o i BY DEF Restoring
<1>2. scPar \in 0..5 /\ (scPar \in 1..4 => fLastDacs[scPar - 1] \in Int)
  <2>1. scPar \in 1..4 => scPar - 1 \in Channels BY DEF Channels
  <2> QED BY <2>1 DEF ScanTypeOK, Voltages
<1>3. /\ a \in Seq(Commands)
      /\ scPar \notin 1..3 => a = <<>>
      /\ scPar \in 1..3 => /\ LastIs(a, SetOf(scPar - 1), SetTo(scPar - 1, fLastDacs[scPar - 1]))
                           /\ \A c \in Channels : c # scPar - 1 => NoneOf(a, SetOf(c))
  <2>1. CASE scPar \in 1..4
    <3>1. a = adjustScanPar(scPar, fLastDacs[scPar - 1]) BY <2>1
    <3> HIDE DEF a
    <3> QED BY <1>2, <2>1, <3>1, Adjusted
  <2>2. CASE scPar \notin 1..4 BY <1>2, <2>2
  <2> QED BY <2>1, <2>2
<1>4. /\ i \in Seq(Commands) /\ \A c : NoneOf(i, SetOf(c))
      /\ LastIs(i, Inhibits("gpio"), Ends("gpio")) /\ LastIs(i, Inhibits("mqtt"), Ends("mqtt"))
  BY Inhibited
<1> HIDE DEF a, i
<1>5. a \o i \in Seq(Commands) BY <1>3, <1>4
<1>6. LastIs(a \o i, Inhibits("gpio"), Ends("gpio")) /\ LastIs(a \o i, Inhibits("mqtt"), Ends("mqtt"))
  BY <1>3, <1>4, JoinedQueue
<1>7. ASSUME NEW c \in Channels, scPar \notin 1..3 \/ c # scPar - 1 PROVE NoneOf(a \o i, SetOf(c))
  <2>1. NoneOf(a, SetOf(c))
    <3>1. CASE scPar \notin 1..3 BY <1>3, <3>1, EmptyQueue
    <3>2. CASE scPar \in 1..3 BY <1>3, <1>7, <3>2
    <3> QED BY <3>1, <3>2
  <2> QED BY <1>3, <1>4, <2>1, JoinedQueue
<1>8. scPar \in 1..3 => LastIs(a \o i, SetOf(scPar - 1), SetTo(scPar - 1, fLastDacs[scPar - 1]))
  BY <1>3, <1>4, JoinedQueue
<1> QED BY <1>1, <1>5, <1>6, <1>7, <1>8

\* The end of a scan: the settings and the end of the inhibits are on their way.
LEMMA FinishRestores ==
    ASSUME ScanIInv, scActive, scConnected, finishScan,
           UNCHANGED <<scPar, fLastDacs, scDac, scTold, scSetting, scRefused, scMistaken>>
    PROVE  scOut' \in Seq(Commands) /\ SettingsArrive' /\ InhibitsEnd' /\ ScanKnows'
<1>1. ScanTypeOK /\ scOut \in Seq(Commands) BY DEF ScanIInv, ScanTypeOK
<1>2. scOut' = scOut \o Restoring /\ ~scActive' BY DEF finishScan, Send
<1>3. Restoring \in Seq(Commands) BY <1>1, Restored
<1>4. SettingsArrive'
  <2> SUFFICES ASSUME NEW c \in Channels \ scMistaken
               PROVE  Settles(scOut', SetOf(c), SetTo(c, scSetting[c]), c \in scRefused \/ scDac[c] = scSetting[c])
    BY DEF SettingsArrive
  <2>1. CASE Stepped(c)
    <3>1. fLastDacs[c] = scSetting[c] /\ scPar \in 1..3 /\ c = scPar - 1 BY <2>1 DEF ScanIInv, ScanKnows, Stepped
    <3>2. LastIs(Restoring, SetOf(c), SetTo(c, scSetting[c])) BY <1>1, <3>1, Restored
    <3> QED BY <1>1, <1>2, <1>3, <3>2, SettledByWhatIsSent
  <2>2. CASE ~Stepped(c)
    <3>1. Settles(scOut, SetOf(c), SetTo(c, scSetting[c]), c \in scRefused \/ scDac[c] = scSetting[c])
      BY <2>2 DEF ScanIInv, SettingsArrive
    <3>2. NoneOf(Restoring, SetOf(c)) BY <1>1, <2>2, Restored DEF Stepped
    <3> QED BY <1>1, <1>2, <1>3, <3>1, <3>2, SettledByWhatIsSent
  <2> QED BY <2>1, <2>2
<1>5. InhibitsEnd'
  <2>1. LastIs(Restoring, Inhibits("gpio"), Ends("gpio")) /\ LastIs(Restoring, Inhibits("mqtt"), Ends("mqtt"))
    BY <1>1, Restored
  <2>2. LastIs(scOut', Inhibits("gpio"), Ends("gpio")) /\ LastIs(scOut', Inhibits("mqtt"), Ends("mqtt"))
    BY <1>1, <1>2, <1>3, <2>1, JoinedQueue
  <2> QED BY <2>2 DEF InhibitsEnd, Settles
<1>6. ScanKnows' BY <1>2 DEF ScanKnows, Stepped
<1>7. scOut' \in Seq(Commands) BY <1>1, <1>2, <1>3
<1> QED BY <1>4, <1>5, <1>6, <1>7

-----------------------------------------------------------------------------
\* A mark counts three edges more than the last, whatever of the counter shows.
LEMMA MarkCountsThree ==
    ASSUME NEW k \in Nat
    PROVE  (MarkOf(k + 1).mark.count - MarkOf(k).mark.count) % CounterRange = 3
<1> DEFINE R == CounterRange
           x == 3 * k
           a == x % R
           b == (x + 3) % R
<1>1. R \in Nat /\ R > 3 BY ScanFormAssumption
<1>2. x \in Nat /\ 3 * (k + 1) = x + 3 OBVIOUS
<1> HIDE DEF R, x
<1>3. /\ a \in 0..(R - 1) /\ b \in 0..(R - 1) /\ x \div R \in Int /\ (x + 3) \div R \in Int
      /\ x = R * (x \div R) + a /\ x + 3 = R * ((x + 3) \div R) + b
  BY <1>1, <1>2
<1> DEFINE p == (x + 3) \div R - x \div R
<1>4. p \in Int /\ R * p = a + 3 - b
  <2> DEFINE u == x \div R
             v == (x + 3) \div R
  <2>1. u \in Int /\ v \in Int /\ R * (v - u) = R * v - R * u BY <1>1, <1>3
  <2>2. R * u \in Int /\ R * v \in Int BY <1>1, <1>3
  <2> HIDE DEF u, v, a, b
  <2>3. x = R * u + a /\ x + 3 = R * v + b BY <1>3 DEF u, v
  <2> QED BY <1>1, <1>2, <1>3, <2>1, <2>2, <2>3 DEF u, v
<1> HIDE DEF a, b, p
<1>5. p = 0 \/ p = 1
  <2>1. R * p > 3 - R /\ R * p < R + R
    <3> DEFINE w == R * p
    <3>1. w = a + 3 - b /\ a \in 0..(R - 1) /\ b \in 0..(R - 1) BY <1>3, <1>4
    <3> HIDE DEF w
    <3>2. w > 3 - R /\ w < R + R BY <1>1, <3>1
    <3> QED BY <3>2 DEF w
  <2>2. ~(p <= -1)
    <3> SUFFICES ASSUME p <= -1 PROVE FALSE OBVIOUS
    <3>1. R * p <= R * (-1) BY <1>1, <1>4
    <3> QED BY <1>1, <1>4, <2>1, <3>1
  <2>3. ~(p >= 2)
    <3> SUFFICES ASSUME p >= 2 PROVE FALSE OBVIOUS
    <3>1. R * p >= R * 2 BY <1>1, <1>4
    <3> QED BY <1>1, <1>4, <2>1, <3>1
  <2> QED BY <1>4, <2>2, <2>3
<1>6. b - a = 3 \/ b - a = 3 - R BY <1>1, <1>3, <1>4, <1>5
<1>7. 3 % R = 3 /\ (3 - R) % R = 3 BY <1>1
<1>8. (b - a) % R = 3 BY <1>6, <1>7
<1> QED BY <1>2, <1>8 DEF MarkOf, R, a, b, x

LEMMA ReportJoins ==
    \A q \in Seq(ReadBacks \cup Marks) : \A x \in ReadBacks, n \in Nat, k \in Nat :
        /\ InOrder(q, n) => InOrder(Append(q, x), n)
        /\ Awaited(q, k, n) => Awaited(Append(q, x), k, n)
<1> SUFFICES ASSUME NEW q \in Seq(ReadBacks \cup Marks), NEW x \in ReadBacks, NEW n \in Nat, NEW k \in Nat
             PROVE  /\ InOrder(q, n) => InOrder(Append(q, x), n)
                    /\ Awaited(q, k, n) => Awaited(Append(q, x), k, n)
  OBVIOUS
<1> DEFINE l == Len(q)
           s == Append(q, x)
<1>1. l \in Nat /\ Len(s) = l + 1 /\ s[l + 1] = x /\ \A p \in 1..l : s[p] = q[p] OBVIOUS
<1>2. x.type # "mark" /\ \A t : x # MarkOf(t) BY DEF ReadBacks, MarkOf
<1>3. \A p \in 1..(l + 1) : p \in 1..l \/ p = l + 1 BY <1>1
<1> HIDE DEF s, l
<1>4. ASSUME InOrder(q, n) PROVE InOrder(s, n)
  <2> SUFFICES ASSUME NEW p \in 1..(l + 1), s[p].type = "mark"
               PROVE  /\ s[p].mark.time \in 1..n /\ s[p] = MarkOf(s[p].mark.time)
                      /\ \A r \in (p + 1)..(l + 1) : s[r].type = "mark" => s[p].mark.time < s[r].mark.time
                      /\ s[p].mark.time < n => \E r \in (p + 1)..(l + 1) : s[r] = MarkOf(s[p].mark.time + 1)
    BY <1>1 DEF InOrder
  <2>1. p \in 1..l /\ s[p] = q[p] BY <1>1, <1>2, <1>3
  <2>2. /\ q[p].mark.time \in 1..n /\ q[p] = MarkOf(q[p].mark.time)
        /\ \A r \in (p + 1)..l : q[r].type = "mark" => q[p].mark.time < q[r].mark.time
        /\ q[p].mark.time < n => \E r \in (p + 1)..l : q[r] = MarkOf(q[p].mark.time + 1)
    BY <1>4, <2>1 DEF InOrder, l
  <2>3. \A r \in (p + 1)..(l + 1) : r \in (p + 1)..l \/ r = l + 1 BY <1>1, <2>1
  <2>4. \A r \in (p + 1)..l : r \in (p + 1)..(l + 1) /\ s[r] = q[r] BY <1>1, <2>1
  <2> QED BY <1>1, <1>2, <2>1, <2>2, <2>3, <2>4
<1>5. ASSUME Awaited(q, k, n) PROVE Awaited(s, k, n)
  <2>1. \A p \in 1..l : p \in 1..(l + 1) BY <1>1
  <2> QED BY <1>1, <1>2, <1>3, <1>5, <2>1 DEF Awaited, l
<1> QED BY <1>4, <1>5 DEF s

LEMMA MarkJoins ==
    \A q \in Seq(ReadBacks \cup Marks) : \A n \in Nat, k \in Nat :
        /\ InOrder(q, n) => InOrder(Append(q, MarkOf(n + 1)), n + 1)
        /\ Awaited(q, k, n) => Awaited(Append(q, MarkOf(n + 1)), k, n + 1)
<1> SUFFICES ASSUME NEW q \in Seq(ReadBacks \cup Marks), NEW n \in Nat, NEW k \in Nat
             PROVE  /\ InOrder(q, n) => InOrder(Append(q, MarkOf(n + 1)), n + 1)
                    /\ Awaited(q, k, n) => Awaited(Append(q, MarkOf(n + 1)), k, n + 1)
  OBVIOUS
<1> DEFINE l == Len(q)
           x == MarkOf(n + 1)
           s == Append(q, x)
<1>1. l \in Nat /\ Len(s) = l + 1 /\ s[l + 1] = x /\ \A p \in 1..l : s[p] = q[p] OBVIOUS
<1>2. x.type = "mark" /\ x.mark.time = n + 1 /\ x = MarkOf(n + 1) BY DEF MarkOf
<1>3. \A p \in 1..(l + 1) : p \in 1..l \/ p = l + 1 BY <1>1
<1> HIDE DEF s, l, x
<1>4. ASSUME InOrder(q, n) PROVE InOrder(s, n + 1)
  <2> SUFFICES ASSUME NEW p \in 1..(l + 1), s[p].type = "mark"
               PROVE  /\ s[p].mark.time \in 1..(n + 1) /\ s[p] = MarkOf(s[p].mark.time)
                      /\ \A r \in (p + 1)..(l + 1) : s[r].type = "mark" => s[p].mark.time < s[r].mark.time
                      /\ s[p].mark.time < n + 1 => \E r \in (p + 1)..(l + 1) : s[r] = MarkOf(s[p].mark.time + 1)
    BY <1>1 DEF InOrder
  <2>1. CASE p = l + 1 BY <1>1, <1>2, <2>1
  <2>2. CASE p \in 1..l
    <3>1. s[p] = q[p] BY <1>1, <2>2
    <3>2. /\ q[p].mark.time \in 1..n /\ q[p] = MarkOf(q[p].mark.time)
          /\ \A r \in (p + 1)..l : q[r].type = "mark" => q[p].mark.time < q[r].mark.time
          /\ q[p].mark.time < n => \E r \in (p + 1)..l : q[r] = MarkOf(q[p].mark.time + 1)
      BY <1>4, <2>2, <3>1 DEF InOrder, l
    <3>3. \A r \in (p + 1)..(l + 1) : r \in (p + 1)..l \/ r = l + 1 BY <1>1, <2>2
    <3>4. \A r \in (p + 1)..l : r \in (p + 1)..(l + 1) /\ s[r] = q[r] BY <1>1, <2>2
    <3>5. \A r \in (p + 1)..(l + 1) : s[r].type = "mark" => s[p].mark.time < s[r].mark.time
      BY <1>1, <1>2, <3>1, <3>2, <3>3, <3>4, SMTT(30)
    <3>6. s[p].mark.time < n + 1 => \E r \in (p + 1)..(l + 1) : s[r] = MarkOf(s[p].mark.time + 1)
      <4>1. CASE q[p].mark.time < n BY <3>1, <3>2, <3>4, <4>1
      <4>2. CASE q[p].mark.time = n
        <5>1. l + 1 \in (p + 1)..(l + 1) BY <1>1, <2>2
        <5> QED BY <1>1, <1>2, <3>1, <4>2, <5>1
      <4> QED BY <3>1, <3>2, <4>1, <4>2
    <3> QED BY <3>1, <3>2, <3>5, <3>6
  <2> QED BY <1>3, <2>1, <2>2
<1>5. ASSUME Awaited(q, k, n) PROVE Awaited(s, k, n + 1)
  <2>1. \A p \in 1..l : p \in 1..(l + 1) BY <1>1
  <2>2. k \in 1..n /\ k \in 1..(n + 1) BY <1>5 DEF Awaited
  <2>3. \A p \in 1..(l + 1) : s[p].type = "mark" => k < s[p].mark.time
    BY <1>1, <1>2, <1>3, <1>5, <2>2 DEF Awaited, l
  <2>4. \E p \in 1..(l + 1) : s[p] = MarkOf(k + 1)
    <3>1. CASE k < n BY <1>1, <1>5, <2>1, <3>1 DEF Awaited, l
    <3>2. CASE k = n
      <4>1. l + 1 \in 1..(l + 1) BY <1>1
      <4> QED BY <1>1, <1>2, <3>2, <4>1
    <3> QED BY <2>2, <3>1, <3>2
  <2> QED BY <1>1, <2>2, <2>3, <2>4 DEF Awaited
<1> QED BY <1>4, <1>5 DEF s, x

LEMMA MarkIsTaken ==
    \A q \in Seq(ReadBacks \cup Marks) : \A n \in Nat, k \in Nat : q # <<>> /\ InOrder(q, n) =>
        /\ InOrder(Tail(q), n)
        /\ Head(q).type # "mark" /\ Awaited(q, k, n) => Awaited(Tail(q), k, n)
        /\ Head(q).type = "mark" => /\ Head(q) = MarkOf(Head(q).mark.time)
                                    /\ Awaited(Tail(q), Head(q).mark.time, n)
                                    /\ Awaited(q, k, n) => Head(q).mark.time = k + 1
<1> SUFFICES ASSUME NEW q \in Seq(ReadBacks \cup Marks), NEW n \in Nat, NEW k \in Nat, q # <<>>, InOrder(q, n)
             PROVE  /\ InOrder(Tail(q), n)
                    /\ Head(q).type # "mark" /\ Awaited(q, k, n) => Awaited(Tail(q), k, n)
                    /\ Head(q).type = "mark" => /\ Head(q) = MarkOf(Head(q).mark.time)
                                                /\ Awaited(Tail(q), Head(q).mark.time, n)
                                                /\ Awaited(q, k, n) => Head(q).mark.time = k + 1
  OBVIOUS
<1> DEFINE l == Len(q)
           t == Tail(q)
           h == Head(q)
<1>1. l \in Nat \ {0} /\ Len(t) = l - 1 /\ h = q[1] /\ \A p \in 1..(l - 1) : t[p] = q[p + 1] OBVIOUS
<1> HIDE DEF t, l, h
<1>2. \A p \in 2..l : p - 1 \in 1..(l - 1) /\ q[p] = t[p - 1]
  <2>1. \A p \in 2..l : p - 1 \in 1..(l - 1) /\ p - 1 + 1 = p BY <1>1
  <2> QED BY <1>1, <2>1
<1>3. \A p \in 1..l : q[p].type = "mark" =>
        /\ q[p].mark.time \in 1..n /\ q[p] = MarkOf(q[p].mark.time)
        /\ \A r \in (p + 1)..l : q[r].type = "mark" => q[p].mark.time < q[r].mark.time
        /\ q[p].mark.time < n => \E r \in (p + 1)..l : q[r] = MarkOf(q[p].mark.time + 1)
  BY DEF InOrder, l
<1>4. InOrder(t, n)
  <2> SUFFICES ASSUME NEW p \in 1..(l - 1), t[p].type = "mark"
               PROVE  /\ t[p].mark.time \in 1..n /\ t[p] = MarkOf(t[p].mark.time)
                      /\ \A r \in (p + 1)..(l - 1) : t[r].type = "mark" => t[p].mark.time < t[r].mark.time
                      /\ t[p].mark.time < n => \E r \in (p + 1)..(l - 1) : t[r] = MarkOf(t[p].mark.time + 1)
    BY <1>1 DEF InOrder
  <2>1. p + 1 \in 1..l /\ t[p] = q[p + 1] BY <1>1
  <2>2. \A r \in (p + 1)..(l - 1) : r + 1 \in (p + 1 + 1)..l /\ t[r] = q[r + 1] BY <1>1
  <2>3. \A r \in (p + 1 + 1)..l : r - 1 \in (p + 1)..(l - 1) /\ q[r] = t[r - 1] BY <1>1, <1>2
  <2> QED BY <1>3, <2>1, <2>2, <2>3
<1>5. ASSUME h.type # "mark", Awaited(q, k, n) PROVE Awaited(t, k, n)
  <2>1. \A p \in 1..(l - 1) : p + 1 \in 1..l BY <1>1
  <2>2. k < n => \E p \in 1..(l - 1) : t[p] = MarkOf(k + 1)
    <3> SUFFICES ASSUME k < n PROVE \E p \in 1..(l - 1) : t[p] = MarkOf(k + 1) OBVIOUS
    <3>1. PICK p \in 1..l : q[p] = MarkOf(k + 1) BY <1>5 DEF Awaited, l
    <3>2. p # 1 BY <1>1, <1>5, <3>1 DEF MarkOf
    <3>3. p \in 2..l BY <1>1, <3>2
    <3> QED BY <1>2, <3>1, <3>3
  <2> QED BY <1>1, <1>5, <2>1, <2>2 DEF Awaited, l
<1>6. ASSUME h.type = "mark"
      PROVE  h = MarkOf(h.mark.time) /\ Awaited(t, h.mark.time, n) /\ (Awaited(q, k, n) => h.mark.time = k + 1)
  <2>1. 1 \in 1..l /\ 1 + 1 = 2 BY <1>1
  <2>2. /\ h.mark.time \in 1..n /\ h = MarkOf(h.mark.time)
        /\ \A r \in 2..l : q[r].type = "mark" => h.mark.time < q[r].mark.time
        /\ h.mark.time < n => \E r \in 2..l : q[r] = MarkOf(h.mark.time + 1)
    BY <1>1, <1>3, <1>6, <2>1
  <2>3. Awaited(t, h.mark.time, n)
    <3>1. \A p \in 1..(l - 1) : p + 1 \in 2..l /\ t[p] = q[p + 1] BY <1>1
    <3>2. \A p \in 1..(l - 1) : t[p].type = "mark" => h.mark.time < t[p].mark.time BY <2>2, <3>1
    <3>3. ASSUME h.mark.time < n PROVE \E p \in 1..(l - 1) : t[p] = MarkOf(h.mark.time + 1)
      <4>1. PICK r \in 2..l : q[r] = MarkOf(h.mark.time + 1) BY <2>2, <3>3
      <4> QED BY <1>2, <4>1
    <3> QED BY <1>1, <2>2, <3>2, <3>3 DEF Awaited
  <2>4. ASSUME Awaited(q, k, n) PROVE h.mark.time = k + 1
    <3>1. k < h.mark.time /\ k \in 1..n BY <1>1, <1>6, <2>1, <2>4 DEF Awaited, l
    <3>2. PICK p \in 1..l : q[p] = MarkOf(k + 1) BY <2>2, <2>4, <3>1 DEF Awaited, l
    <3>3. q[p].type = "mark" /\ q[p].mark.time = k + 1 BY <3>2 DEF MarkOf
    <3>4. CASE p = 1 BY <1>1, <3>3, <3>4
    <3>5. CASE p # 1
      <4>1. p \in 2..l BY <1>1, <3>5
      <4> QED BY <2>2, <3>1, <3>3, <4>1
    <3> QED BY <3>4, <3>5
  <2> QED BY <2>2, <2>3, <2>4
<1> QED BY <1>4, <1>5, <1>6 DEF t, h

LEMMA OthersTaken ==
    ASSUME NEW M, NEW kind, NEW good, NEW before, NEW q \in Seq(M), q # <<>>, good \subseteq kind,
           Head(q) \notin kind, Settles(q, kind, good, before)
    PROVE  Settles(Tail(q), kind, good, before)
BY ShorterQueue DEF Settles

LEMMA KindTaken ==
    ASSUME NEW M, NEW kind, NEW good, NEW before, NEW q \in Seq(M), q # <<>>,
           Head(q) \in kind, Settles(q, kind, good, before)
    PROVE  LastIs(Tail(q), kind, good) \/ (Head(q) \in good /\ NoneOf(Tail(q), kind))
BY ShorterQueue DEF Settles

LEMMA GoodOfKind ==
    ASSUME ScanTypeOK
    PROVE  /\ \A c \in Channels : SetTo(c, scSetting[c]) \subseteq SetOf(c)
           /\ Ends("gpio") \subseteq Inhibits("gpio") /\ Ends("mqtt") \subseteq Inhibits("mqtt")
<1>1. \A c \in Channels : scSetting[c] \in Int BY ScanFormAssumption DEF ScanTypeOK
<1> QED BY <1>1 DEF SetTo, SetOf, Ends, Inhibits

LEMMA LimitsAreInts ==
    ASSUME NEW i \in ScanInputs
    PROVE  StepOf(i) \in Int /\ LimitsOf(i) \in Int \X Int /\ LimitsOf(i)[1] \in Int /\ LimitsOf(i)[2] \in Int
<1>1. /\ i.min \in Int /\ i.max \in Int /\ i.step \in Int /\ i.nr \in Nat /\ i.time \in Nat
  BY ScanFormAssumption
<1>2. i.nr >= 2 => (i.max - i.min) \div (i.nr - 1) \in Int
  <2> DEFINE d == i.max - i.min
             n == i.nr - 1
  <2> SUFFICES ASSUME i.nr >= 2 PROVE d \div n \in Int OBVIOUS
  <2>1. d \in Int /\ n \in Nat \ {0} BY <1>1
  <2> HIDE DEF d, n
  <2> QED BY <2>1
<1>3. StepOf(i) \in Int
  <2> DEFINE d == (i.max - i.min) \div (i.nr - 1)
  <2>1. i.nr >= 2 => d \in Int BY <1>2
  <2>2. StepOf(i) = (IF SP_NAMES[i.par] = "TIME" THEN i.time
                     ELSE IF i.nr = 0 THEN i.step ELSE IF i.nr < 2 THEN i.max + 1 ELSE d) BY DEF StepOf
  <2> HIDE DEF d
  <2>3. i.nr < 2 \/ i.nr >= 2 BY <1>1
  <2> QED BY <1>1, <2>1, <2>2, <2>3
<1>4. i.time * (i.nr - 1) \in Int BY <1>1
<1> QED BY <1>1, <1>3, <1>4 DEF LimitsOf

\* A scan begins from what was read back last; it inhibits, and steps one channel or none.
LEMMA StartKeeps == ASSUME ScanIInv, NEW i \in ScanInputs, StartScan(i) PROVE ScanIInv'
<1> DEFINE first == LimitsOf(i)[1]
           sent == Inhibit(TRUE) \o adjustScanPar(i.par, first)
<1>1. ScanTypeOK /\ scOut \in Seq(Commands) BY DEF ScanIInv, ScanTypeOK
<1>2. /\ i.par \in 1..5 /\ i.par \in 0..5 /\ i.time \in Nat /\ i.stat \in Nat
      /\ StepOf(i) \in Int /\ LimitsOf(i) \in Int \X Int /\ first \in Int
  BY ScanFormAssumption, LimitsAreInts
<1>3. /\ scOut' = scOut \o sent /\ scActive' /\ ~scActive /\ scPar' = i.par /\ scConnected'
      /\ scMistaken' = scMistaken \cup {c \in Channels : i.par \in 1..3 /\ c = i.par - 1 /\ fLastDacs[c] # scSetting[c]}
      /\ UNCHANGED <<fLastDacs, scSetting, scRefused, scDac>>
  BY DEF StartScan, Send, scDaemon
<1>4. /\ adjustScanPar(i.par, first) \in Seq(Commands)
      /\ \A c \in Channels : ~(i.par \in 1..3 /\ c = i.par - 1) => NoneOf(adjustScanPar(i.par, first), SetOf(c))
  <2> HIDE DEF first
  <2>1. i.par \notin 1..3 => \A c \in Channels : NoneOf(adjustScanPar(i.par, first), SetOf(c))
    BY <1>2, Adjusted, EmptyQueue
  <2> QED BY <1>2, <2>1, Adjusted
<1>5. Inhibit(TRUE) \in Seq(Commands) /\ \A c : NoneOf(Inhibit(TRUE), SetOf(c)) BY Inhibited
<1>6. sent \in Seq(Commands) BY <1>4, <1>5, JoinedIsQueue
<1>7. ASSUME NEW c \in Channels, ~(i.par \in 1..3 /\ c = i.par - 1) PROVE NoneOf(sent, SetOf(c))
  <2>1. NoneOf(adjustScanPar(i.par, first), SetOf(c)) BY <1>4, <1>7
  <2> QED BY <1>4, <1>5, <2>1, JoinedQueue
<1> HIDE DEF sent, first
<1>8. ScanTypeOK'
  <2>1. scOut' \in Seq(Commands) BY <1>1, <1>3, <1>6
  <2>2. scStep' \in Int /\ scLimits' \in Int \X Int /\ scCurrent' \in Int /\ scMaxTime' \in Nat /\ scMaxCounts' \in Nat
    BY <1>2 DEF StartScan, first
  <2> QED BY <1>1, <1>2, <1>3, <2>1, <2>2 DEF StartScan, ScanTypeOK, scDaemon
<1>9. SettingsArrive'
  <2> SUFFICES ASSUME NEW c \in Channels \ scMistaken', ~Stepped(c)'
               PROVE  Settles(scOut', SetOf(c), SetTo(c, scSetting[c]), c \in scRefused \/ scDac[c] = scSetting[c])
    BY <1>3 DEF SettingsArrive
  <2>1. ~(i.par \in 1..3 /\ c = i.par - 1) /\ c \notin scMistaken BY <1>3 DEF Stepped
  <2>2. Settles(scOut, SetOf(c), SetTo(c, scSetting[c]), c \in scRefused \/ scDac[c] = scSetting[c])
    BY <1>3, <2>1 DEF ScanIInv, SettingsArrive, Stepped
  <2>3. NoneOf(sent, SetOf(c)) BY <1>7, <2>1
  <2> QED BY <1>1, <1>3, <1>6, <2>2, <2>3, SettledByWhatIsSent
<1>10. InhibitsEnd' BY <1>3 DEF InhibitsEnd
<1>11. ScanKnows' BY <1>3 DEF ScanKnows, Stepped
<1>12. MarksFollow' BY DEF ScanIInv, MarksFollow, StartScan
<1>13. Measuring' BY DEF Measuring, StartScan
<1>14. ScanPoints'
  <2>1. scCurrent' = scLimits'[1] /\ scanData' = {} BY DEF StartScan
  <2> QED BY <1>3, <2>1 DEF ScanPoints
<1> QED BY <1>8, <1>9, <1>10, <1>11, <1>12, <1>13, <1>14 DEF ScanIInv

LEMMA StopKeeps == ASSUME ScanIInv, StopScan PROVE ScanIInv'
<1>1. ScanTypeOK BY DEF ScanIInv
<1>2. scOut' \in Seq(Commands) /\ SettingsArrive' /\ InhibitsEnd' /\ ScanKnows'
  BY FinishRestores DEF StopScan, scDaemon, scHistory
<1>3. scActive' = FALSE BY DEF StopScan, finishScan
<1>4. ScanTypeOK' BY <1>1, <1>2, <1>3 DEF StopScan, ScanTypeOK, scDaemon, scHistory
<1>5. MarksFollow' /\ Measuring' /\ ScanPoints'
  BY <1>3 DEF ScanIInv, MarksFollow, Measuring, ScanPoints, StopScan
<1> QED BY <1>2, <1>4, <1>5 DEF ScanIInv

\* What is read back is followed between two scans.
LEMMA ReadbackKeeps ==
    ASSUME ScanIInv, scIn # <<>>, scConnected, scIn' = Tail(scIn), Head(scIn).type = "dac",
           onDacReadbackReceived(Head(scIn).voltages),
           UNCHANGED <<scScan, scOut, scConnected, scDaemon, scHistory, scMarks>>
    PROVE  ScanIInv'
<1>1. ScanTypeOK /\ scIn \in Seq(ReadBacks \cup Marks) /\ scMarks \in Nat BY DEF ScanIInv, ScanTypeOK
<1>2. Head(scIn).voltages \in Voltages /\ scIn' \in Seq(ReadBacks \cup Marks)
  <2>1. Head(scIn) \in ReadBacks \cup Marks /\ scIn' \in Seq(ReadBacks \cup Marks) BY <1>1
  <2> QED BY <2>1 DEF ReadBacks, Marks
<1>3. ScanTypeOK'
  <2>1. fLastDacs' \in Voltages BY <1>1, <1>2 DEF onDacReadbackReceived, ScanTypeOK
  <2> QED BY <1>1, <1>2, <2>1 DEF ScanTypeOK, scScan, scDaemon, scHistory
<1>4. SettingsArrive' /\ InhibitsEnd'
  BY DEF ScanIInv, SettingsArrive, InhibitsEnd, Stepped, scScan, scDaemon, scHistory, Settles
<1>5. ScanKnows' BY DEF ScanIInv, ScanKnows, Stepped, onDacReadbackReceived, scScan, scHistory
<1>6. MarksFollow' BY <1>1, MarkIsTaken DEF ScanIInv, MarksFollow
<1>7. Measuring'
  <2> SUFFICES ASSUME scActive, ~scWait
               PROVE  scCounts = 3 * scTime /\ lastTM = MarkOf(lastTM.time).mark /\ Awaited(scIn', lastTM.time, scMarks)
    BY DEF Measuring, scScan
  <2>1. Head(scIn).type # "mark" /\ lastTM.time \in Nat BY <1>1 DEF ScanTypeOK
  <2> QED BY <1>1, <2>1, MarkIsTaken DEF ScanIInv, MarksFollow, Measuring
<1>8. ScanPoints' BY DEF ScanIInv, ScanPoints, scScan
<1> QED BY <1>3, <1>4, <1>5, <1>6, <1>7, <1>8 DEF ScanIInv

\* What a mark leaves of a queue, and what it says of the measurement.
LEMMA MarkTaken ==
    ASSUME ScanIInv, scIn # <<>>, Head(scIn).type = "mark"
    PROVE  LET m == Head(scIn).mark
           IN /\ Tail(scIn) \in Seq(ReadBacks \cup Marks) /\ Head(scIn) \notin ReadBacks
              /\ m \in [count : Nat, time : Nat] /\ m = MarkOf(m.time).mark
              /\ InOrder(Tail(scIn), scMarks) /\ Awaited(Tail(scIn), m.time, scMarks)
              /\ scActive /\ ~scWait => /\ m.time - lastTM.time = 1
                                        /\ (m.count - lastTM.count) % CounterRange = 3
<1>1. scIn \in Seq(ReadBacks \cup Marks) /\ scMarks \in Nat /\ lastTM \in [count : Nat, time : Nat] /\ lastTM.time \in Nat
  BY DEF ScanIInv, ScanTypeOK
<1>2. Head(scIn) \in ReadBacks \cup Marks /\ Tail(scIn) \in Seq(ReadBacks \cup Marks) BY <1>1
<1>3. Head(scIn) \notin ReadBacks BY DEF ReadBacks
<1>4. Head(scIn).mark \in [count : Nat, time : Nat] BY <1>2, <1>3 DEF Marks
<1>5. /\ InOrder(Tail(scIn), scMarks) /\ Head(scIn) = MarkOf(Head(scIn).mark.time)
      /\ Awaited(Tail(scIn), Head(scIn).mark.time, scMarks)
      /\ Awaited(scIn, lastTM.time, scMarks) => Head(scIn).mark.time = lastTM.time + 1
  BY <1>1, MarkIsTaken DEF ScanIInv, MarksFollow
<1>6. ASSUME scActive, ~scWait
      PROVE  /\ Head(scIn).mark.time - lastTM.time = 1
             /\ (Head(scIn).mark.count - lastTM.count) % CounterRange = 3
  <2>1. lastTM = MarkOf(lastTM.time).mark /\ Awaited(scIn, lastTM.time, scMarks) BY <1>6 DEF ScanIInv, Measuring
  <2>2. Head(scIn).mark.time = lastTM.time + 1 BY <1>5, <2>1
  <2>3. /\ Head(scIn).mark.count = MarkOf(lastTM.time + 1).mark.count
        /\ lastTM.count = MarkOf(lastTM.time).mark.count
    BY <1>5, <2>1, <2>2
  <2>4. (MarkOf(lastTM.time + 1).mark.count - MarkOf(lastTM.time).mark.count) % CounterRange = 3
    BY <1>1, MarkCountsThree
  <2>5. (Head(scIn).mark.count - lastTM.count) % CounterRange = 3 BY <2>3, <2>4, Zenon
  <2>6. Head(scIn).mark.time - lastTM.time = 1 BY <1>1, <2>2
  <2> QED BY <2>5, <2>6
<1>7. Head(scIn).mark = MarkOf(Head(scIn).mark.time).mark BY <1>5
<1> QED BY <1>2, <1>3, <1>4, <1>5, <1>6, <1>7

\* A mark that does not end the scan may send the next value of its channel.
LEMMA UnfinishedKeeps ==
    ASSUME ScanIInv, scActive' = scActive, NEW v \in Int,
           scOut' = scOut \/ (scActive /\ scOut' = scOut \o adjustScanPar(scPar, v)),
           UNCHANGED <<scPar, fLastDacs, scDac, scTold, scSetting, scRefused, scMistaken>>
    PROVE  scOut' \in Seq(Commands) /\ SettingsArrive' /\ InhibitsEnd' /\ ScanKnows'
<1>1. ScanTypeOK /\ scOut \in Seq(Commands) /\ scPar \in 0..5 BY DEF ScanIInv, ScanTypeOK
<1> DEFINE sent == adjustScanPar(scPar, v)
<1>2. /\ sent \in Seq(Commands)
      /\ scPar \notin 1..3 => sent = <<>>
      /\ scPar \in 1..3 => \A c \in Channels : c # scPar - 1 => NoneOf(sent, SetOf(c))
  BY <1>1, Adjusted
<1> HIDE DEF sent
<1>3. scOut' = scOut \/ (scActive /\ scOut' = scOut \o sent) BY DEF sent
<1>4. scOut' \in Seq(Commands) BY <1>1, <1>2, <1>3, JoinedIsQueue
<1>5. SettingsArrive'
  <2> SUFFICES ASSUME NEW c \in Channels \ scMistaken, ~Stepped(c)
               PROVE  Settles(scOut', SetOf(c), SetTo(c, scSetting[c]), c \in scRefused \/ scDac[c] = scSetting[c])
    BY DEF SettingsArrive, Stepped
  <2>1. Settles(scOut, SetOf(c), SetTo(c, scSetting[c]), c \in scRefused \/ scDac[c] = scSetting[c])
    BY DEF ScanIInv, SettingsArrive
  <2>2. CASE scOut' = scOut BY <2>1, <2>2
  <2>3. CASE scActive /\ scOut' = scOut \o sent
    <3>1. NoneOf(sent, SetOf(c)) BY <1>2, <2>3, EmptyQueue DEF Stepped
    <3> QED BY <1>1, <1>2, <2>1, <2>3, <3>1, SettledByWhatIsSent
  <2> QED BY <1>3, <2>2, <2>3
<1>6. InhibitsEnd' BY <1>3 DEF ScanIInv, InhibitsEnd
<1>7. ScanKnows' BY DEF ScanIInv, ScanKnows, Stepped
<1> QED BY <1>4, <1>5, <1>6, <1>7

LEMMA MarkKeeps ==
    ASSUME ScanIInv, scIn # <<>>, scConnected, scIn' = Tail(scIn), Head(scIn).type = "mark",
           onTimeMarkReceived(Head(scIn).mark),
           UNCHANGED <<scPar, scStep, scLimits, scMaxTime, scMaxCounts, fLastDacs, scConnected, scDaemon, scHistory, scMarks>>
    PROVE  ScanIInv'
<1> DEFINE m == Head(scIn).mark
           counts == scCounts + ((m.count - lastTM.count) % CounterRange)
           time == scTime + (m.time - lastTM.time)
<1>1. /\ ScanTypeOK /\ scCounts \in Int /\ scTime \in Int /\ scCurrent \in Int /\ scStep \in Int
      /\ scLimits \in Int \X Int /\ scLimits[1] \in Int /\ scLimits[2] \in Int /\ lastTM \in [count : Nat, time : Nat]
  BY DEF ScanIInv, ScanTypeOK
<1>2. /\ scIn' \in Seq(ReadBacks \cup Marks) /\ Head(scIn) \notin ReadBacks
      /\ m \in [count : Nat, time : Nat] /\ m = MarkOf(m.time).mark
      /\ InOrder(scIn', scMarks) /\ Awaited(scIn', m.time, scMarks)
      /\ scActive /\ ~scWait => m.time - lastTM.time = 1 /\ (m.count - lastTM.count) % CounterRange = 3
  BY MarkTaken
<1>3. lastTM' = m BY DEF onTimeMarkReceived
<1>4. MarksFollow' BY <1>2 DEF MarksFollow
<1>5. /\ scActive /\ ~scWait => counts = scCounts + 3 /\ time = scTime + 1 /\ counts = 3 * time
      /\ counts \in Int /\ time \in Int
  <2>1. scActive /\ ~scWait => scCounts = 3 * scTime BY DEF ScanIInv, Measuring
  <2>2. (m.count - lastTM.count) % CounterRange \in Int /\ m.time - lastTM.time \in Int
    <3>1. m.count - lastTM.count \in Int /\ m.time - lastTM.time \in Int BY <1>1, <1>2, SMTT(30)
    <3> HIDE DEF m
    <3> QED BY <3>1, ScanFormAssumption
  <2> DEFINE c == (m.count - lastTM.count) % CounterRange
             d == m.time - lastTM.time
  <2>3. c \in Int /\ d \in Int /\ (scActive /\ ~scWait => d = 1 /\ c = 3) BY <1>2, <2>2
  <2>4. counts = scCounts + c /\ time = scTime + d OBVIOUS
  <2> HIDE DEF c, d, counts, time
  <2> QED BY <1>1, <2>1, <2>3, <2>4
<1> DEFINE Over == time > scMaxTime \/ (counts > scMaxCounts /\ time > 1)
<1>6. \/ ~scActive /\ UNCHANGED <<scActive, scCurrent, scWait, scCounts, scTime, scanData, scOut>>
      \/ scActive /\ scWait /\ scCounts' = 0 /\ scTime' = 0 /\ scWait' = FALSE /\ UNCHANGED <<scActive, scCurrent, scanData, scOut>>
      \/ /\ scActive /\ ~scWait /\ ~Over /\ scCounts' = counts /\ scTime' = time
         /\ UNCHANGED <<scActive, scCurrent, scWait, scanData, scOut>>
      \/ scActive /\ ~scWait /\ Over /\ scCounts' = counts /\ scTime' = time /\ scanParIteration(counts, time)
  BY DEF onTimeMarkReceived
<1> HIDE DEF m, counts, time, Over
<1>7. CASE ~scActive /\ UNCHANGED <<scActive, scCurrent, scWait, scCounts, scTime, scanData, scOut>>
  <2>1. scOut' \in Seq(Commands) /\ SettingsArrive' /\ InhibitsEnd' /\ ScanKnows'
    BY <1>1, <1>2, <1>7, UnfinishedKeeps DEF scDaemon, scHistory
  <2>2. ScanTypeOK' BY <1>1, <1>2, <1>3, <1>7, <2>1 DEF ScanTypeOK, scDaemon, scHistory
  <2>3. Measuring' /\ ScanPoints' BY <1>7 DEF ScanIInv, Measuring, ScanPoints
  <2> QED BY <1>4, <2>1, <2>2, <2>3 DEF ScanIInv
<1>8. CASE scActive /\ scWait /\ scCounts' = 0 /\ scTime' = 0 /\ scWait' = FALSE /\ UNCHANGED <<scActive, scCurrent, scanData, scOut>>
  <2>1. scOut' \in Seq(Commands) /\ SettingsArrive' /\ InhibitsEnd' /\ ScanKnows'
    BY <1>1, <1>2, <1>8, UnfinishedKeeps DEF scDaemon, scHistory
  <2>2. ScanTypeOK'
    <3>0. 0 \in Int /\ FALSE \in BOOLEAN OBVIOUS
    <3>1. scCounts' \in Int /\ scTime' \in Int /\ scWait' \in BOOLEAN BY <1>8, <3>0, Zenon
    <3>2. UNCHANGED <<scActive, scCurrent>> BY <1>8
    <3>3. scCurrent' \in Int /\ lastTM' \in [count : Nat, time : Nat] BY <1>1, <1>2, <1>3, <3>2
    <3> QED BY <1>1, <1>2, <2>1, <3>1, <3>2, <3>3 DEF ScanTypeOK, scDaemon, scHistory
  <2>3. Measuring' BY <1>2, <1>3, <1>8 DEF Measuring
  <2>4. ScanPoints' BY <1>8 DEF ScanIInv, ScanPoints
  <2> QED BY <1>4, <2>1, <2>2, <2>3, <2>4 DEF ScanIInv
<1>9. CASE /\ scActive /\ ~scWait /\ ~Over /\ scCounts' = counts /\ scTime' = time
           /\ UNCHANGED <<scActive, scCurrent, scWait, scanData, scOut>>
  <2>1. scOut' \in Seq(Commands) /\ SettingsArrive' /\ InhibitsEnd' /\ ScanKnows'
    BY <1>1, <1>2, <1>9, UnfinishedKeeps DEF scDaemon, scHistory
  <2>2. ScanTypeOK' BY <1>1, <1>2, <1>3, <1>5, <1>9, <2>1 DEF ScanTypeOK, scDaemon, scHistory
  <2>3. Measuring' BY <1>2, <1>3, <1>5, <1>9 DEF Measuring
  <2>4. ScanPoints' BY <1>9 DEF ScanIInv, ScanPoints
  <2> QED BY <1>4, <2>1, <2>2, <2>3, <2>4 DEF ScanIInv
<1>10. CASE scActive /\ ~scWait /\ Over /\ scCounts' = counts /\ scTime' = time /\ scanParIteration(counts, time)
  <2>1. scanData' = scanData \cup {[at |-> scCurrent, counts |-> counts, time |-> time]} /\ scCurrent' = scCurrent + scStep
    BY <1>10 DEF scanParIteration
  <2>2. \A p \in scanData' : p.counts = 3 * p.time /\ (p.time > scMaxTime \/ (p.counts > scMaxCounts /\ p.time > 1))
    BY <1>5, <1>10, <2>1 DEF ScanIInv, ScanPoints, Over
  <2>3. scCurrent' \in Int BY <1>1, <2>1
  <2>4. CASE scCurrent' > scLimits[2] /\ finishScan /\ UNCHANGED scWait
    <3>1. scOut' \in Seq(Commands) /\ SettingsArrive' /\ InhibitsEnd' /\ ScanKnows'
      BY <1>2, <1>10, <2>4, FinishRestores DEF scDaemon, scHistory
    <3>2. scActive' = FALSE BY <2>4 DEF finishScan
    <3>3. ScanTypeOK' BY <1>1, <1>2, <1>3, <1>5, <1>10, <2>3, <2>4, <3>1, <3>2 DEF ScanTypeOK, scDaemon, scHistory
    <3>4. Measuring' /\ ScanPoints' BY <2>2, <3>2 DEF Measuring, ScanPoints
    <3> QED BY <1>4, <3>1, <3>3, <3>4 DEF ScanIInv
  <2>5. CASE ~(scCurrent' > scLimits[2]) /\ scWait' = TRUE /\ UNCHANGED scActive /\ Send(adjustScanPar(scPar, scCurrent'))
    <3>1. scOut' = scOut \o adjustScanPar(scPar, scCurrent') BY <2>5 DEF Send
    <3>2. scOut' \in Seq(Commands) /\ SettingsArrive' /\ InhibitsEnd' /\ ScanKnows'
      BY <1>2, <1>10, <2>3, <2>5, <3>1, UnfinishedKeeps DEF scDaemon, scHistory
    <3>3. ScanTypeOK' BY <1>1, <1>2, <1>3, <1>5, <1>10, <2>3, <2>5, <3>2 DEF ScanTypeOK, scDaemon, scHistory
    <3>4. Measuring' BY <2>5 DEF Measuring
    <3>5. scStep > 0 => scLimits[1] <= scCurrent
      BY <1>1, <1>10 DEF ScanIInv, ScanPoints
    <3>6. scStep > 0 => scLimits[1] <= scCurrent' /\ scCurrent' <= scLimits[2] BY <1>1, <2>1, <2>5, <3>5
    <3>7. ScanPoints' BY <2>2, <3>6 DEF ScanPoints
    <3> QED BY <1>4, <3>2, <3>3, <3>4, <3>7 DEF ScanIInv
  <2> QED BY <1>10, <2>4, <2>5 DEF scanParIteration
<1> QED BY <1>6, <1>7, <1>8, <1>9, <1>10

\* What the lost connection takes with it is named.
LEMMA DisconnectKeeps == ASSUME ScanIInv, ScanDisconnect PROVE ScanIInv'
<1>1. ScanTypeOK /\ scOut \in Seq(Commands) BY DEF ScanIInv, ScanTypeOK
<1>2. /\ scActive' = FALSE /\ scConnected' = FALSE /\ scOut' = <<>> /\ scIn' = <<>>
      /\ scTold' = [gpio |-> FALSE, mqtt |-> FALSE]
      /\ scRefused' = scRefused \cup {c \in Channels : Awaiting(c)}
      /\ scMistaken' = scMistaken \cup {c \in Channels : Stepped(c)}
      /\ UNCHANGED <<scDac, scSetting>>
  BY DEF ScanDisconnect
<1>3. ScanTypeOK'
  <2>1. <<>> \in Seq(Commands) /\ <<>> \in Seq(ReadBacks \cup Marks) OBVIOUS
  <2>2. scTold' \in [gpio : BOOLEAN, mqtt : BOOLEAN] BY <1>2
  <2>3. scActive' \in BOOLEAN /\ scConnected' \in BOOLEAN BY <1>2, Zenon
  <2>4. /\ scOut' \in Seq(Commands) /\ scIn' \in Seq(ReadBacks \cup Marks)
        /\ scConnected' \/ (scOut' = <<>> /\ scIn' = <<>>)
    BY <1>2, <2>1
  <2> QED BY <1>1, <2>2, <2>3, <2>4 DEF ScanDisconnect, ScanTypeOK
<1>4. SettingsArrive'
  <2> SUFFICES ASSUME NEW c \in Channels \ scMistaken'
               PROVE  c \in scRefused' \/ scDac[c] = scSetting[c]
    BY <1>2, EmptyQueue DEF SettingsArrive, Settles
  <2>1. c \notin scMistaken /\ ~Stepped(c) BY <1>2
  <2>2. Settles(scOut, SetOf(c), SetTo(c, scSetting[c]), c \in scRefused \/ scDac[c] = scSetting[c])
    BY <2>1 DEF ScanIInv, SettingsArrive
  <2>3. CASE (c \in scRefused \/ scDac[c] = scSetting[c]) BY <1>2, <2>3
  <2>4. CASE LastIs(scOut, SetOf(c), SetTo(c, scSetting[c]))
    <3>1. PICK p \in 1..Len(scOut) : scOut[p] \in SetTo(c, scSetting[c]) BY <2>4 DEF LastIs
    <3>2. Awaiting(c) BY <3>1 DEF Awaiting, SetTo
    <3> QED BY <1>2, <3>2
  <2> QED BY <2>2, <2>3, <2>4 DEF Settles
<1>5. InhibitsEnd' BY <1>2, EmptyQueue DEF InhibitsEnd, Settles
<1>6. ScanKnows' BY <1>2 DEF ScanKnows, Stepped
<1>7. MarksFollow' BY <1>2 DEF MarksFollow, InOrder
<1>8. Measuring' /\ ScanPoints' BY <1>2 DEF ScanIInv, Measuring, ScanPoints, ScanDisconnect
<1> QED BY <1>3, <1>4, <1>5, <1>6, <1>7, <1>8 DEF ScanIInv

LEMMA ReadBackIsReport ==
    ASSUME NEW dac \in Voltages, NEW unread
    PROVE  ReadBack(dac, unread) \in ReadBacks /\ ReadBack(dac, unread).type # "mark"
BY DEF ReadBack, ReadBacks, Voltages

LEMMA ConnectKeeps == ASSUME ScanIInv, ScanConnect PROVE ScanIInv'
<1>1. ScanTypeOK /\ ~scActive BY DEF ScanIInv, ScanConnect, ScanPoints
<1>2. PICK x : x \in ReadBacks /\ x.type # "mark" /\ scIn' = <<x>>
  <2>1. PICK unread \in ReadFaults \cup {{}} : scIn' = <<ReadBack(scDac, unread)>> BY DEF ScanConnect
  <2> QED BY <1>1, <2>1, ReadBackIsReport DEF ScanTypeOK
<1>3. UNCHANGED <<scScan, fLastDacs, scOut, scDaemon, scHistory, scMarks>> /\ scConnected' = TRUE BY DEF ScanConnect
<1>4. ScanTypeOK'
  <2>1. <<x>> \in Seq(ReadBacks \cup Marks) BY <1>2
  <2> QED BY <1>1, <1>2, <1>3, <2>1 DEF ScanTypeOK, scScan, scDaemon, scHistory
<1>5. SettingsArrive' /\ InhibitsEnd'
  BY <1>3 DEF ScanIInv, SettingsArrive, InhibitsEnd, Stepped, scScan, scDaemon, scHistory, Settles
<1>6. ScanKnows' BY <1>1, <1>3 DEF ScanKnows, Stepped, scScan
<1>7. MarksFollow'
  <2>1. Len(<<x>>) = 1 /\ \A p \in 1..1 : <<x>>[p] = x OBVIOUS
  <2> QED BY <1>2, <2>1 DEF MarksFollow, InOrder
<1>8. Measuring' BY <1>1, <1>3 DEF Measuring, scScan
<1>9. ScanPoints' BY <1>1, <1>3 DEF ScanIInv, ScanPoints, scScan
<1> QED BY <1>4, <1>5, <1>6, <1>7, <1>8, <1>9 DEF ScanIInv

LEMMA UserKeeps == ASSUME ScanIInv, UserSets PROVE ScanIInv'
<1>1. ScanTypeOK /\ scOut \in Seq(Commands) BY DEF ScanIInv, ScanTypeOK
<1>2. PICK c \in Channels, type \in {"set", "bias"}, v \in UserVoltages :
        /\ type = "bias" => c = scBias
        /\ Send(<<Setting(type, c, v)>>)
        /\ IF Stepped(c) THEN UNCHANGED <<scSetting, scMistaken>>
           ELSE scSetting' = [scSetting EXCEPT ![c] = v] /\ scMistaken' = scMistaken \ {c}
  BY DEF UserSets
<1>3. v \in 0..DacLimit /\ v \in Int BY ScanFormAssumption
<1> DEFINE x == Setting(type, c, v)
<1>4. scOut' = scOut \o <<x>> BY <1>2 DEF Send, UserSets
<1>5. UNCHANGED <<scScan, fLastDacs, scConnected, scIn, scDaemon, scRefused, scMarks>> /\ scConnected BY DEF UserSets
<1>6. /\ x \in Sets /\ x \in SetTo(c, v)
      /\ x \notin Inhibits("gpio") /\ x \notin Inhibits("mqtt")
      /\ \A d \in Channels : d # c => x \notin SetOf(d)
  <2>1. x = [type |-> type, channel |-> c, value |-> v] BY DEF Setting
  <2> HIDE DEF x
  <2> QED BY <1>2, <1>3, <2>1 DEF Sets, SetTo, Inhibits, SetOf
<1> HIDE DEF x
<1>7. <<x>> \in Seq(Commands) BY <1>6 DEF Commands
<1>8. ScanTypeOK'
  <2>1. scOut' \in Seq(Commands) BY <1>1, <1>4, <1>7, JoinedIsQueue
  <2>2. scSetting' \in [Channels -> 0..DacLimit] BY <1>1, <1>2, <1>3 DEF ScanTypeOK
  <2> QED BY <1>1, <1>5, <2>1, <2>2 DEF ScanTypeOK, scScan, scDaemon
<1>9. \A d : Stepped(d)' <=> Stepped(d) BY <1>5 DEF Stepped, scScan
<1>10. SettingsArrive'
  <2> SUFFICES ASSUME NEW d \in Channels \ scMistaken', ~Stepped(d)
               PROVE  Settles(scOut', SetOf(d), SetTo(d, scSetting'[d]), d \in scRefused \/ scDac[d] = scSetting'[d])
    BY <1>5, <1>9 DEF SettingsArrive, scDaemon
  <2>1. CASE d = c
    <3>1. scSetting'[d] = v BY <1>1, <1>2, <2>1 DEF ScanTypeOK
    <3>2. LastIs(<<x>>, SetOf(d), SetTo(d, v)) BY <1>6, <2>1, OneMessage
    <3> QED BY <1>1, <1>4, <1>7, <3>1, <3>2, SettledByWhatIsSent
  <2>2. CASE d # c
    <3>1. scSetting'[d] = scSetting[d] /\ d \notin scMistaken BY <1>1, <1>2, <2>2 DEF ScanTypeOK
    <3>2. Settles(scOut, SetOf(d), SetTo(d, scSetting[d]), d \in scRefused \/ scDac[d] = scSetting[d])
      BY <3>1 DEF ScanIInv, SettingsArrive
    <3>3. NoneOf(<<x>>, SetOf(d)) BY <1>6, <2>2, OneMessage
    <3> QED BY <1>1, <1>4, <1>7, <3>1, <3>2, <3>3, SettledByWhatIsSent
  <2> QED BY <2>1, <2>2
<1>11. InhibitsEnd'
  <2> SUFFICES ASSUME ~scActive
               PROVE  /\ Settles(scOut', Inhibits("gpio"), Ends("gpio"), scTold.gpio = FALSE)
                      /\ Settles(scOut', Inhibits("mqtt"), Ends("mqtt"), scTold.mqtt = FALSE)
    BY <1>5 DEF InhibitsEnd, scDaemon, scScan
  <2>1. NoneOf(<<x>>, Inhibits("gpio")) /\ NoneOf(<<x>>, Inhibits("mqtt")) BY <1>6, OneMessage
  <2> QED BY <1>1, <1>4, <1>7, <2>1, SettledByWhatIsSent DEF ScanIInv, InhibitsEnd
<1>12. ScanKnows'
  <2> SUFFICES ASSUME NEW d \in Channels \ scMistaken', Stepped(d) PROVE fLastDacs[d] = scSetting'[d]
    BY <1>5, <1>9 DEF ScanKnows
  <2>1. scSetting'[d] = scSetting[d] /\ d \notin scMistaken BY <1>1, <1>2 DEF ScanTypeOK
  <2> QED BY <2>1 DEF ScanIInv, ScanKnows
<1>13. MarksFollow' /\ Measuring' /\ ScanPoints'
  BY <1>5 DEF ScanIInv, MarksFollow, Measuring, ScanPoints, scScan
<1> QED BY <1>8, <1>10, <1>11, <1>12, <1>13 DEF ScanIInv

\* A setting reaches the DAC: its own channel is set to it or named as refused, the others stay.
LEMMA SetsOrRefuses ==
    ASSUME ScanTypeOK, NEW cmd \in Sets, NEW ok \in BOOLEAN, NEW unread,
           IF cmd.type = "set" THEN onThresholdSettingCmd(cmd, ok, unread) ELSE onBiasVoltageCmd(cmd, ok, unread)
    PROVE  /\ scDac' \in Voltages
           /\ scIn' = scIn \/ (\E x \in ReadBacks : scIn' = Append(scIn, x))
           /\ cmd.value \in 0..DacLimit => cmd.channel \in scRefused' \/ scDac'[cmd.channel] = cmd.value
           /\ \A c \in Channels : c # cmd.channel => (c \in scRefused' <=> c \in scRefused) /\ scDac'[c] = scDac[c]
<1>1. cmd.type \in {"set", "bias"} /\ cmd.channel \in Channels /\ cmd.value \in Int /\ (cmd.type = "bias" => cmd.channel = scBias)
  BY DEF Sets
<1>2. scDac \in [Channels -> Int] /\ DacLimit \in Nat BY ScanFormAssumption DEF ScanTypeOK, Voltages
<1> DEFINE value == IF cmd.type = "set" /\ cmd.channel \in scThresholds /\ cmd.value > DacLimit THEN DacLimit ELSE cmd.value
<1>3. value \in Int /\ (cmd.value \in 0..DacLimit => value = cmd.value) BY <1>1, <1>2
<1>4. setVoltage(cmd.channel, value, ok)
  <2>1. CASE cmd.type = "set" BY <2>1 DEF onThresholdSettingCmd
  <2>2. CASE cmd.type = "bias" BY <1>1, <2>2 DEF onBiasVoltageCmd
  <2> QED BY <1>1, <2>1, <2>2
<1> HIDE DEF value
<1>5. scIn' = scIn \/ (\E y \in ReadBacks : scIn' = Append(scIn, y)) \/ scDac' \notin Voltages
  <2>1. scDac' \in Voltages => ReadBack(scDac', unread) \in ReadBacks BY ReadBackIsReport
  <2>2. scIn' = scIn \/ scIn' = Append(scIn, ReadBack(scDac', unread))
    BY DEF onThresholdSettingCmd, onBiasVoltageCmd
  <2> QED BY <2>1, <2>2
<1>6. CASE ok /\ value \in 0..DacLimit
  <2>1. scDac' = [scDac EXCEPT ![cmd.channel] = value] /\ scRefused' = scRefused \ {cmd.channel}
    BY <1>4, <1>6 DEF setVoltage
  <2>2. scDac' \in Voltages BY <1>1, <1>2, <1>3, <2>1 DEF Voltages
  <2> QED BY <1>1, <1>2, <1>3, <1>5, <2>1, <2>2
<1>7. CASE ~(ok /\ value \in 0..DacLimit)
  <2>1. scDac' = scDac /\ scRefused' = scRefused \cup {cmd.channel} BY <1>4, <1>7 DEF setVoltage
  <2>2. scDac' \in Voltages BY <1>2, <2>1 DEF Voltages
  <2> QED BY <1>1, <1>5, <2>1, <2>2
<1> QED BY <1>6, <1>7

\* The daemon carries a command out: what it settled is settled in the daemon.
LEMMA DaemonKeeps == ASSUME ScanIInv, DaemonHandles PROVE ScanIInv'
<1> DEFINE cmd == Head(scOut)
<1>1. ScanTypeOK /\ scOut \in Seq(Commands) /\ scIn \in Seq(ReadBacks \cup Marks) /\ scMarks \in Nat
  BY DEF ScanIInv, ScanTypeOK
<1>2. /\ scOut # <<>> /\ scOut' = Tail(scOut) /\ scConnected
      /\ UNCHANGED <<scScan, fLastDacs, scConnected, scSetting, scMistaken, scMarks>>
  BY <1>1 DEF DaemonHandles, ScanTypeOK
<1>3. cmd \in Commands /\ scOut' \in Seq(Commands) BY <1>1, <1>2
<1>4. /\ \A c \in Channels : SetTo(c, scSetting[c]) \subseteq SetOf(c)
      /\ Ends("gpio") \subseteq Inhibits("gpio") /\ Ends("mqtt") \subseteq Inhibits("mqtt")
  BY <1>1, GoodOfKind
<1>5. MarksFollow /\ Measuring /\ ScanPoints /\ ScanKnows BY DEF ScanIInv
<1>6. ScanKnows' /\ ScanPoints' BY <1>2, <1>5 DEF ScanKnows, ScanPoints, Stepped, scScan
<1>7. \A c : Stepped(c)' <=> Stepped(c) BY <1>2 DEF Stepped, scScan
<1>8. CASE cmd.type \in {"set", "bias"}
  <2>1. cmd \in Sets BY <1>3, <1>8 DEF Commands, Inhibits
  <2>2. /\ UNCHANGED scTold
        /\ \E ok \in BOOLEAN, unread \in ReadFaults \cup {{}} :
              IF cmd.type = "set" THEN onThresholdSettingCmd(cmd, ok, unread) ELSE onBiasVoltageCmd(cmd, ok, unread)
    BY <1>8 DEF DaemonHandles
  <2> HIDE DEF cmd
  <2>3. /\ scDac' \in Voltages
        /\ scIn' = scIn \/ (\E x \in ReadBacks : scIn' = Append(scIn, x))
        /\ cmd.value \in 0..DacLimit => cmd.channel \in scRefused' \/ scDac'[cmd.channel] = cmd.value
        /\ \A c \in Channels : c # cmd.channel => (c \in scRefused' <=> c \in scRefused) /\ scDac'[c] = scDac[c]
    BY <1>1, <2>1, <2>2, SetsOrRefuses
  <2>4. cmd.channel \in Channels /\ cmd \in SetOf(cmd.channel) /\ (\A c : c # cmd.channel => cmd \notin SetOf(c))
        /\ cmd \notin Inhibits("gpio") /\ cmd \notin Inhibits("mqtt")
    BY <2>1 DEF Sets, SetOf, Inhibits
  <2>5. ScanTypeOK'
    <3>1. scIn' \in Seq(ReadBacks \cup Marks) BY <1>1, <2>3
    <3> QED BY <1>1, <1>2, <1>3, <2>2, <2>3, <3>1 DEF ScanTypeOK, scScan
  <2>6. SettingsArrive'
    <3> SUFFICES ASSUME NEW c \in Channels \ scMistaken, ~Stepped(c)
                 PROVE  Settles(scOut', SetOf(c), SetTo(c, scSetting[c]), c \in scRefused' \/ scDac'[c] = scSetting[c])
      BY <1>2, <1>7 DEF SettingsArrive
    <3>1. Settles(scOut, SetOf(c), SetTo(c, scSetting[c]), c \in scRefused \/ scDac[c] = scSetting[c])
      BY DEF ScanIInv, SettingsArrive
    <3>2. CASE c = cmd.channel
      <4>1. LastIs(scOut', SetOf(c), SetTo(c, scSetting[c]))
            \/ (cmd \in SetTo(c, scSetting[c]) /\ NoneOf(scOut', SetOf(c)))
        BY <1>1, <1>2, <2>4, <3>1, <3>2, KindTaken DEF cmd
      <4>2. cmd \in SetTo(c, scSetting[c]) => c \in scRefused' \/ scDac'[c] = scSetting[c]
        <5>1. scSetting[c] \in 0..DacLimit BY <1>1 DEF ScanTypeOK
        <5> QED BY <2>3, <3>2, <5>1 DEF SetTo
      <4> QED BY <4>1, <4>2 DEF Settles
    <3>3. CASE c # cmd.channel
      <4>1. Settles(scOut', SetOf(c), SetTo(c, scSetting[c]), c \in scRefused \/ scDac[c] = scSetting[c])
        BY <1>1, <1>2, <1>4, <2>4, <3>1, <3>3, OthersTaken DEF cmd
      <4> QED BY <2>3, <3>3, <4>1
    <3> QED BY <3>2, <3>3
  <2>7. InhibitsEnd'
    <3> SUFFICES ASSUME ~scActive
                 PROVE  /\ Settles(scOut', Inhibits("gpio"), Ends("gpio"), scTold.gpio = FALSE)
                        /\ Settles(scOut', Inhibits("mqtt"), Ends("mqtt"), scTold.mqtt = FALSE)
      BY <1>2, <2>2 DEF InhibitsEnd, scScan
    <3>1. /\ Settles(scOut, Inhibits("gpio"), Ends("gpio"), scTold.gpio = FALSE)
          /\ Settles(scOut, Inhibits("mqtt"), Ends("mqtt"), scTold.mqtt = FALSE)
      BY DEF ScanIInv, InhibitsEnd
    <3> QED BY <1>1, <1>2, <1>4, <2>4, <3>1, OthersTaken DEF cmd
  <2>8. MarksFollow' BY <1>1, <1>2, <1>5, <2>3, ReportJoins DEF MarksFollow
  <2>9. Measuring'
    <3>1. lastTM.time \in Nat BY <1>1 DEF ScanTypeOK
    <3> QED BY <1>1, <1>2, <1>5, <2>3, <3>1, ReportJoins DEF Measuring, scScan
  <2> QED BY <1>6, <2>5, <2>6, <2>7, <2>8, <2>9 DEF ScanIInv
<1>9. CASE cmd.type \in {"gpio", "mqtt"}
  <2>1. scTold' = [scTold EXCEPT ![cmd.type] = cmd.on] /\ UNCHANGED <<scDac, scIn, scRefused>>
    BY <1>9 DEF DaemonHandles, tellInhibit
  <2>2. /\ cmd.on \in BOOLEAN /\ cmd \in Inhibits(cmd.type) /\ (\A c : cmd \notin SetOf(c))
        /\ cmd.type = "gpio" => cmd \notin Inhibits("mqtt")
        /\ cmd.type = "mqtt" => cmd \notin Inhibits("gpio")
    BY <1>3, <1>9 DEF Commands, Sets, SetOf, Inhibits
  <2> HIDE DEF cmd
  <2>3. ScanTypeOK'
    <3>1. scTold' \in [gpio : BOOLEAN, mqtt : BOOLEAN] BY <1>1, <1>9, <2>1, <2>2 DEF ScanTypeOK
    <3> QED BY <1>1, <1>2, <1>3, <2>1, <3>1 DEF ScanTypeOK, scScan
  <2>4. SettingsArrive'
    <3> SUFFICES ASSUME NEW c \in Channels \ scMistaken, ~Stepped(c)
                 PROVE  Settles(scOut', SetOf(c), SetTo(c, scSetting[c]), c \in scRefused \/ scDac[c] = scSetting[c])
      BY <1>2, <1>7, <2>1 DEF SettingsArrive
    <3>1. Settles(scOut, SetOf(c), SetTo(c, scSetting[c]), c \in scRefused \/ scDac[c] = scSetting[c])
      BY DEF ScanIInv, SettingsArrive
    <3> QED BY <1>1, <1>2, <1>4, <2>2, <3>1, OthersTaken DEF cmd
  <2>5. ASSUME NEW t \in {"gpio", "mqtt"}, ~scActive
        PROVE  Settles(scOut', Inhibits(t), Ends(t), scTold'[t] = FALSE)
    <3>1. Settles(scOut, Inhibits(t), Ends(t), scTold[t] = FALSE) BY <2>5 DEF ScanIInv, InhibitsEnd
    <3>2. CASE t = cmd.type
      <4>1. LastIs(scOut', Inhibits(t), Ends(t)) \/ (cmd \in Ends(t) /\ NoneOf(scOut', Inhibits(t)))
        BY <1>1, <1>2, <2>2, <3>1, <3>2, KindTaken DEF cmd
      <4>2. cmd \in Ends(t) => scTold'[t] = FALSE BY <1>1, <2>1, <3>2 DEF Ends, ScanTypeOK
      <4> QED BY <4>1, <4>2 DEF Settles
    <3>3. CASE t # cmd.type
      <4>1. cmd \notin Inhibits(t) BY <1>9, <2>2, <3>3
      <4>2. scTold'[t] = scTold[t] BY <1>1, <2>1, <3>3 DEF ScanTypeOK
      <4>3. Settles(scOut', Inhibits(t), Ends(t), scTold[t] = FALSE)
        BY <1>1, <1>2, <1>4, <3>1, <4>1, OthersTaken DEF cmd
      <4> QED BY <4>2, <4>3
    <3> QED BY <3>2, <3>3
  <2>6. InhibitsEnd' BY <1>2, <2>5 DEF InhibitsEnd, scScan
  <2>7. MarksFollow' /\ Measuring' BY <1>2, <1>5, <2>1 DEF MarksFollow, Measuring, scScan
  <2> QED BY <1>6, <2>3, <2>4, <2>6, <2>7 DEF ScanIInv
<1> QED BY <1>8, <1>9 DEF DaemonHandles

LEMMA MarksKeep == ASSUME ScanIInv, DaemonMarks PROVE ScanIInv'
<1>1. ScanTypeOK /\ scIn \in Seq(ReadBacks \cup Marks) /\ scMarks \in Nat /\ lastTM.time \in Nat BY DEF ScanIInv, ScanTypeOK
<1> DEFINE x == MarkOf(scMarks + 1)
<1>2. /\ scMarks' = scMarks + 1 /\ scIn' = Append(scIn, x)
      /\ UNCHANGED <<scScan, fLastDacs, scConnected, scOut, scDaemon, scHistory>>
  BY DEF DaemonMarks, MarkOf
<1>3. x \in Marks
  <2>1. (3 * (scMarks + 1)) % CounterRange \in Nat
    <3>1. 3 * (scMarks + 1) \in Nat BY <1>1
    <3> QED BY <3>1, ScanFormAssumption
  <2> QED BY <1>1, <2>1 DEF MarkOf, Marks
<1> HIDE DEF x
<1>4. scIn' \in Seq(ReadBacks \cup Marks) BY <1>1, <1>2, <1>3
<1>5. ScanTypeOK' BY <1>1, <1>2, <1>4 DEF ScanTypeOK, scScan, scDaemon, scHistory, DaemonMarks
<1>6. SettingsArrive' /\ InhibitsEnd'
  BY <1>2 DEF ScanIInv, SettingsArrive, InhibitsEnd, Stepped, scScan, scDaemon, scHistory, Settles
<1>7. ScanKnows' BY <1>2 DEF ScanIInv, ScanKnows, Stepped, scScan, scHistory
<1>8. MarksFollow' BY <1>1, <1>2, MarkJoins DEF ScanIInv, MarksFollow, x
<1>9. Measuring' BY <1>1, <1>2, MarkJoins DEF ScanIInv, Measuring, scScan, x
<1>10. ScanPoints' BY <1>2 DEF ScanIInv, ScanPoints, scScan
<1> QED BY <1>5, <1>6, <1>7, <1>8, <1>9, <1>10 DEF ScanIInv

LEMMA ScanStep == ScanIInv /\ [ScanNext]_scVars => ScanIInv'
<1> SUFFICES ASSUME ScanIInv, [ScanNext]_scVars PROVE ScanIInv' OBVIOUS
<1>1. ASSUME NEW i \in ScanInputs, StartScan(i) PROVE ScanIInv' BY <1>1, StartKeeps
<1>2. CASE StopScan BY <1>2, StopKeeps
<1>3. CASE ScanReceive
  <2>1. CASE Head(scIn).type = "dac" BY <1>3, <2>1, ReadbackKeeps DEF ScanReceive
  <2>2. CASE Head(scIn).type = "mark" BY <1>3, <2>2, MarkKeeps DEF ScanReceive
  <2> QED BY <1>3, <2>1, <2>2 DEF ScanReceive
<1>4. CASE ScanDisconnect BY <1>4, DisconnectKeeps
<1>5. CASE ScanConnect BY <1>5, ConnectKeeps
<1>6. CASE UserSets BY <1>6, UserKeeps
<1>7. CASE DaemonHandles BY <1>7, DaemonKeeps
<1>8. CASE DaemonMarks BY <1>8, MarksKeep
<1>9. CASE UNCHANGED scVars
  <2>1. UNCHANGED <<scScan, fLastDacs, scConnected, scOut, scIn, scDac, scTold, scSetting, scRefused, scMistaken, scMarks>>
    BY <1>9 DEF scVars, scLink, scDaemon, scHistory
  <2>2. ScanTypeOK' BY <2>1 DEF ScanIInv, ScanTypeOK, scScan
  <2>3. SettingsArrive' /\ InhibitsEnd' /\ ScanKnows'
    BY <2>1 DEF ScanIInv, SettingsArrive, InhibitsEnd, ScanKnows, Stepped, scScan, Settles
  <2>4. MarksFollow' /\ Measuring' /\ ScanPoints'
    BY <2>1 DEF ScanIInv, MarksFollow, Measuring, ScanPoints, scScan
  <2> QED BY <2>2, <2>3, <2>4 DEF ScanIInv
<1> QED BY <1>1, <1>2, <1>3, <1>4, <1>5, <1>6, <1>7, <1>8, <1>9 DEF ScanNext

LEMMA ScanStart == ScanInit => ScanIInv
<1> SUFFICES ASSUME ScanInit PROVE ScanIInv OBVIOUS
<1> DEFINE x == [type |-> "dac", voltages |-> scDac]
<1>1. scDac \in Voltages /\ fLastDacs \in Voltages /\ scSetting = scDac /\ scSetting \in [Channels -> 0..DacLimit]
  BY ScanFormAssumption DEF ScanInit, Voltages
<1>2. x \in ReadBacks /\ x.type # "mark" BY <1>1 DEF ReadBacks
<1>3. scIn = <<x>> /\ scOut = <<>> BY DEF ScanInit
<1> HIDE DEF x
<1>4. ScanTypeOK
  <2>1. scIn \in Seq(ReadBacks \cup Marks) /\ scOut \in Seq(Commands) BY <1>2, <1>3
  <2>2. lastTM \in [count : Nat, time : Nat] /\ scTold \in [gpio : BOOLEAN, mqtt : BOOLEAN] BY DEF ScanInit
  <2>3. scActive = FALSE /\ scConnected = TRUE /\ scWait = FALSE /\ scLimits = <<0, 0>> BY DEF ScanInit
  <2>4. /\ scActive \in BOOLEAN /\ scConnected \in BOOLEAN /\ scWait \in BOOLEAN
        /\ scConnected
    BY <2>3, Zenon
  <2>5. /\ scPar \in 0..5 /\ scCurrent \in Int /\ scStep \in Int /\ scLimits \in Int \X Int
        /\ scMaxTime \in Nat /\ scMaxCounts \in Nat /\ scCounts \in Int /\ scTime \in Int /\ scMarks \in Nat
    BY DEF ScanInit
  <2> QED BY <1>1, <2>1, <2>2, <2>4, <2>5 DEF ScanTypeOK
<1>5. SettingsArrive BY <1>1, <1>3, EmptyQueue DEF SettingsArrive, Settles
<1>6. InhibitsEnd
  <2>1. scTold.gpio = FALSE /\ scTold.mqtt = FALSE BY DEF ScanInit
  <2> QED BY <1>3, <2>1, EmptyQueue DEF InhibitsEnd, Settles
<1>7. MarksFollow
  <2>1. Len(<<x>>) = 1 /\ \A p \in 1..1 : <<x>>[p] = x OBVIOUS
  <2> QED BY <1>2, <1>3, <2>1 DEF MarksFollow, InOrder
<1>8. ScanKnows /\ Measuring /\ ScanPoints BY DEF ScanInit, ScanKnows, Stepped, Measuring, ScanPoints
<1> QED BY <1>4, <1>5, <1>6, <1>7, <1>8 DEF ScanIInv

LEMMA ScanIsSound == ScanIInv => ScanLeavesNoTrace
<1> SUFFICES ASSUME ScanIInv PROVE ScanLeavesNoTrace OBVIOUS
<1>1. ScanTypeOK BY DEF ScanIInv
<1>2. ASSUME scConnected, ~scActive, scOut = <<>>
      PROVE  /\ \A c \in Channels \ (scRefused \cup scMistaken) : scDac[c] = scSetting[c]
             /\ ~scTold.gpio /\ ~scTold.mqtt
  <2>1. ASSUME NEW c \in Channels \ (scRefused \cup scMistaken) PROVE scDac[c] = scSetting[c]
    <3>1. Settles(scOut, SetOf(c), SetTo(c, scSetting[c]), c \in scRefused \/ scDac[c] = scSetting[c])
      BY <1>2 DEF ScanIInv, SettingsArrive, Stepped
    <3> QED BY <1>2, <3>1, EmptyQueue DEF Settles
  <2>2. scTold.gpio = FALSE /\ scTold.mqtt = FALSE
    BY <1>2, EmptyQueue DEF ScanIInv, InhibitsEnd, Settles
  <2> QED BY <2>1, <2>2
<1>3. ASSUME scActive, scStep > 0 PROVE scCurrent \in {scLimits[1]} \cup scLimits[1] .. scLimits[2]
  <2>1. scLimits[1] \in Int /\ scLimits[2] \in Int /\ scCurrent \in Int BY <1>1 DEF ScanTypeOK
  <2> QED BY <1>3, <2>1 DEF ScanIInv, ScanPoints
<1>4. \A p \in scanData : p.counts = 3 * p.time /\ (p.time > scMaxTime \/ (p.counts > scMaxCounts /\ p.time > 1))
  BY DEF ScanIInv, ScanPoints
<1> QED BY <1>2, <1>3, <1>4 DEF ScanLeavesNoTrace

\* ScanForm (gui/src/scanform.cpp) and MCP4728Driver (daemon/src/drivers/mcp4728_driver.cpp): however
\* scans end, every channel has the voltage the user set, but one the DAC refused, the bus failed, the
\* connection lost, or a scan began from another voltage than the user's; for any inputs of the form,
\* settings at any time, failures and marks.  A setting of each channel that its voltage does not have
\* yet is on its way, the scanned channel's last, and a scan knows the voltage it puts back.
THEOREM ScanRestores == ScanSpec => []ScanLeavesNoTrace
BY ScanStart, ScanStep, ScanIsSound, PTL DEF ScanSpec

-----------------------------------------------------------------------------
(* EventFlow: what is on its way over the daemon's bus.                     *)

EventNames ==
    Types \cup DOMAIN Requests \cup Operations \cup DOMAIN LineCommands \cup DecodedTypes
    \cup {"LogParameter", "Histogram", "shared_ptr<Histogram>", "BiasCurrentEvent", "ServerConnCountEvent",
          "UbxConfigDefaultCmd"}
FlEvents == [kind : {"plain", "store", "signal"}, type : EventNames, value : Nat]

\* What is about a type: the value that is to be stored, the value that is told, and what makes
\* the stored value be told.
ToStore(t) == {e \in FlEvents : e.kind = "store" /\ e.type = t}
ToTell(t) == {e \in FlEvents : e.kind = "plain" /\ e.type = t}
Asks(t) ==
    {e \in FlEvents : /\ e.kind = "plain"
                      /\ \/ e.type = "ServerConnCountEvent"
                         \/ e.type \in DOMAIN Requests /\ Requests[e.type] = Answered(t)}

\* The client learns of a value: it was told it last, it will be, or it is asked for.
Learns(q, t, v, told, asks) == Settles(q, ToTell(t), {Plain(t, v)}, told) \/ ~NoneOf(q, asks)

\* The types that are stored when the hardware or the receiver has told of them.
Measured == Shown \ (NotKept \cup NeverSent \cup {"MqttStatusEvent"})
OfDac == {"ThresholdSettingEvent", "BiasVoltageEvent"}

FlTypeOK ==
    /\ flQueue \in Seq(FlEvents) /\ flClient \in BOOLEAN /\ flCount \in Nat
    /\ Built => flStore \in [Types -> Nat] /\ flTold \in [Types -> Nat] /\ flSaid \in [Types -> Nat]
    /\ ~Built => flQueue = <<>> /\ ~flClient

\* What is written or stored has a value, and the status of the MQTT connection is never wrapped.
KnownEvents ==
    {e \in FlEvents :
        /\ e.kind \in {"store", "signal"} => e.value >= 1 /\ e.type # "MqttStatusEvent"
        /\ e.kind = "signal" => e.type \in {LineCommands[t] : t \in DOMAIN LineCommands}
        /\ e.type \in Operations \cup DOMAIN LineCommands => e.value >= 1}
ValuesAreKnown ==
    /\ flQueue \in Seq(KnownEvents)
    /\ Built => flSaid["MCP4728Event"] >= 1

\* What was reported is so, unless a driver misled; the position and its mode apart, which are not told
\* as they change.
TruthIs ==
    Built =>
        /\ flNow \in [Types -> Nat] /\ flNow["MCP4728Event"] >= 1 /\ flNow["AdcModeEvent"] >= 1
        /\ \A t \in Types \ {"PositionModeConfig", "GnssPosStruct"} : t \in flMisled \/ flSaid[t] = flNow[t]

\* The store has what was reported of a type, or will have it.
StoreFollows ==
    Built => \A t \in Measured : Settles(flQueue, ToStore(t), {Wrapped(t, flSaid[t])}, flStore[t] = flSaid[t])

\* Nothing is told of what was never stored.
ToldIsStored == Built => \A t \in Measured : flStore[t] = 0 => NoneOf(flQueue, ToTell(t)) /\ flTold[t] = 0

\* The client has it, or will, unless it is still to be stored.
ClientFollows ==
    Built /\ flClient => \A t \in Measured :
        \/ ~NoneOf(flQueue, ToStore(t))
        \/ Learns(flQueue, t, flSaid[t], flTold[t] = flSaid[t], Asks(t))

\* The same of the thresholds and the bias voltage, which follow from the DAC.
DacFollows ==
    Built /\ flClient => \A t \in OfDac :
        LET now == flSaid["MCP4728Event"]
        IN \/ ~NoneOf(flQueue, ToStore("MCP4728Event") \cup ToTell("MCP4728Event"))
           \/ Learns(flQueue, t, now, flTold[t] = now, Asks("MCP4728Event"))

\* The status of the MQTT connection is told first and stored then: what is told is the present one.
MqttFollows ==
    LET t == "MqttStatusEvent"
    IN Built =>
        /\ flSaid[t] >= 1
        /\ NoneOf(flQueue, {e \in ToTell(t) : e.value # flSaid[t]})
        /\ flStore[t] = flSaid[t] \/ (flQueue # <<>> /\ Head(flQueue) \in ToTell(t))
        /\ flClient => flTold[t] = flSaid[t] \/ ~NoneOf(flQueue, ToTell(t) \cup Asks(t))

FlIInv ==
    /\ FlTypeOK /\ ValuesAreKnown /\ TruthIs /\ StoreFollows /\ ToldIsStored
    /\ ClientFollows /\ DacFollows /\ MqttFollows

\* The names of the types, read off the tables.
MeasuredNames ==
    {"GpsVersion", "CfgGNSS", "NavSat", "MonTx", "MonRx", "NavStatus", "NavClock", "UbxTimePulseStruct",
     "GnssMonHwStruct", "GnssMonHw2Struct", "TemperatureEvent", "VersionEvent", "LogInfoStruct",
     "BiasSwitchEvent", "MCP4728Event", "PcaSwitchEvent", "CalibEvent", "GainSwitchEvent", "GpioRateEvent",
     "PolaritySwitchEvent"}
OperationNames ==
    {"PcaSwitchCmd", "EventTriggerCmd", "ThresholdSettingCmd", "BiasVoltageCmd", "UbxGnssConfigCmd", "UbxTp5Cmd",
     "PolaritySwitchCmd", "GpioInhibitEvent", "AdcModeEvent", "MqttStatusEvent", "PositionModeCmd"}
LineNames == {"BiasSwitchCmd", "PreampSwitchCmd", "GainSwitchCmd"}
LineTypes == {"BiasSwitchEvent", "PreampSwitchEvent", "GainSwitchEvent"}
RequestNames ==
    {"ThresholdSettingRequestCmd", "BiasVoltageRequestCmd", "PcaSwitchRequestCmd", "BiasSwitchRequestCmd",
     "PolaritySwitchRequestCmd", "GainSwitchRequestCmd", "GpioRateRequestCmd", "TemperatureRequestCmd",
     "CalibRequestCmd", "EventTriggerRequestCmd", "DacSettingRequestCmd", "PreampSwitchRequestCmd",
     "UbxMsgRateRequestCmd"}

\* The names in the tables of the model.
LEMMA NamesAre ==
    /\ Measured = MeasuredNames /\ Operations = OperationNames /\ DOMAIN LineCommands = LineNames
    /\ DOMAIN Requests = RequestNames
<1>1. Measured = MeasuredNames
  BY DEF Measured, MeasuredNames, Shown, NotKept, NeverSent
<1>2. DOMAIN ReceiverCommands = {"UbxGnssConfigCmd", "UbxTp5Cmd"}
  BY DEF ReceiverCommands
<1>3. Operations = OperationNames
  BY <1>2 DEF Operations, OperationNames
<1>4. DOMAIN LineCommands = LineNames
  BY DEF LineCommands, LineNames
<1>5. DOMAIN Requests = RequestNames
  BY DEF Requests, RequestNames
<1> QED
  BY <1>1, <1>3, <1>4, <1>5

\* What the commands of the GPIO driver set.
LEMMA LinesAre ==
    /\ {LineCommands[t] : t \in DOMAIN LineCommands} = LineTypes
    /\ \A t \in LineNames : LineCommands[t] \in LineTypes
<1>1. /\ LineCommands["BiasSwitchCmd"] = "BiasSwitchEvent" /\ LineCommands["PreampSwitchCmd"] = "PreampSwitchEvent"
      /\ LineCommands["GainSwitchCmd"] = "GainSwitchEvent"
  BY DEF LineCommands
<1> QED
  BY <1>1, NamesAre DEF LineNames, LineTypes

\* What the receiver's commands are about.
LEMMA ReceiversAre ==
    \A t \in DOMAIN ReceiverCommands : ReceiverCommands[t] \in {"CfgGNSS", "UbxTimePulseStruct"}
BY DEF ReceiverCommands

\* The requests: what they need, and what they tell.
LEMMA RequestsAre ==
    \A r \in RequestNames :
        /\ Requests[r].needs \in MeasuredNames \cup {"EventTriggerEvent", "PreampSwitchEvent", "CfgMsg"}
        /\ \/ Requests[r].sends = <<Requests[r].needs>>
           \/ Requests[r].needs = "MCP4728Event" /\ Requests[r].sends \in {ThresholdEvents, <<"BiasVoltageEvent">>}
           \/ /\ Requests[r].needs = "PreampSwitchEvent"
              /\ Requests[r].sends = <<"PreampSwitchEvent", "PreampSwitchEvent">>
        /\ Requests[r] = Answered("MCP4728Event") => r = "DacSettingRequestCmd"
BY DEF RequestNames, Requests, Answered, MeasuredNames, ThresholdEvents

\* The types of what the daemon sends to its clients.
LEMMA CodecTypes ==
    /\ GpsVersion.type = "GpsVersion" /\ CfgGNSS.type = "CfgGNSS" /\ NavSat.type = "NavSat"
    /\ MonTx.type = "MonTx" /\ MonRx.type = "MonRx" /\ NavStatus.type = "NavStatus"
    /\ NavClock.type = "NavClock" /\ UbxTimePulseStruct.type = "UbxTimePulseStruct"
    /\ GnssMonHwStruct.type = "GnssMonHwStruct" /\ GnssMonHw2Struct.type = "GnssMonHw2Struct"
    /\ TemperatureEvent.type = "TemperatureEvent" /\ VersionEvent.type = "VersionEvent"
    /\ LogInfoStruct.type = "LogInfoStruct" /\ BiasSwitchEvent.type = "BiasSwitchEvent"
    /\ MCP4728Event.type = "MCP4728Event" /\ PcaSwitchEvent.type = "PcaSwitchEvent"
    /\ CalibEvent.type = "CalibEvent" /\ GainSwitchEvent.type = "GainSwitchEvent"
    /\ GpioRateEvent.type = "GpioRateEvent" /\ PolaritySwitchEvent.type = "PolaritySwitchEvent"
    /\ ThresholdSettingEvent.type = "ThresholdSettingEvent" /\ BiasVoltageEvent.type = "BiasVoltageEvent"
    /\ MqttStatusEvent.type = "MqttStatusEvent" /\ AdcModeEvent.type = "AdcModeEvent"
    /\ AdcTraceEvent.type = "AdcTraceEvent" /\ ADS1115Event.type = "ADS1115Event"
    /\ I2CStatsEvent.type = "I2CStatsEvent" /\ SPIStatsEvent.type = "SPIStatsEvent" /\ GpioEvent.type = "GpioEvent"
    /\ CfgMsg.type = "CfgMsg" /\ GnssPosStruct.type = "GnssPosStruct"
    /\ UbxTimeMarkStruct.type = "UbxTimeMarkStruct" /\ HistogramCodec.type = "Histogram"
    /\ PositionModeConfig.type = "PositionModeConfig" /\ GpioInhibitEvent.type = "GpioInhibitEvent"
    /\ PreampSwitchEvent.type = "PreampSwitchEvent"
<1>1. \A type, key, members : Codec(type, key, members).type = type
  BY DEF Codec
<1>2. /\ GpsVersion.type = "GpsVersion" /\ CfgGNSS.type = "CfgGNSS" /\ NavSat.type = "NavSat"
      /\ MonTx.type = "MonTx" /\ MonRx.type = "MonRx" /\ NavStatus.type = "NavStatus"
      /\ NavClock.type = "NavClock" /\ UbxTimePulseStruct.type = "UbxTimePulseStruct"
      /\ GnssMonHwStruct.type = "GnssMonHwStruct" /\ GnssMonHw2Struct.type = "GnssMonHw2Struct"
  BY <1>1, ZenonT(40) DEF GpsVersion, CfgGNSS, NavSat, MonTx, MonRx, MonBuffer, NavStatus, NavClock, UbxTimePulseStruct,
              GnssMonHwStruct, GnssMonHw2Struct
<1>3. /\ TemperatureEvent.type = "TemperatureEvent" /\ VersionEvent.type = "VersionEvent"
      /\ LogInfoStruct.type = "LogInfoStruct" /\ BiasSwitchEvent.type = "BiasSwitchEvent"
      /\ MCP4728Event.type = "MCP4728Event" /\ PcaSwitchEvent.type = "PcaSwitchEvent"
      /\ CalibEvent.type = "CalibEvent" /\ GainSwitchEvent.type = "GainSwitchEvent"
      /\ GpioRateEvent.type = "GpioRateEvent" /\ PolaritySwitchEvent.type = "PolaritySwitchEvent"
      /\ ThresholdSettingEvent.type = "ThresholdSettingEvent" /\ BiasVoltageEvent.type = "BiasVoltageEvent"
      /\ MqttStatusEvent.type = "MqttStatusEvent"
  BY <1>1, ZenonT(40) DEF TemperatureEvent, VersionEvent, LogInfoStruct, BiasSwitchEvent, MCP4728Event, PcaSwitchEvent,
              CalibEvent, GainSwitchEvent, GpioRateEvent, PolaritySwitchEvent, ThresholdSettingEvent,
              BiasVoltageEvent, MqttStatusEvent
<1>4. /\ AdcModeEvent.type = "AdcModeEvent" /\ AdcTraceEvent.type = "AdcTraceEvent"
      /\ ADS1115Event.type = "ADS1115Event" /\ I2CStatsEvent.type = "I2CStatsEvent"
      /\ SPIStatsEvent.type = "SPIStatsEvent" /\ GpioEvent.type = "GpioEvent" /\ CfgMsg.type = "CfgMsg"
      /\ GnssPosStruct.type = "GnssPosStruct" /\ UbxTimeMarkStruct.type = "UbxTimeMarkStruct"
      /\ HistogramCodec.type = "Histogram" /\ PositionModeConfig.type = "PositionModeConfig"
      /\ GpioInhibitEvent.type = "GpioInhibitEvent" /\ PreampSwitchEvent.type = "PreampSwitchEvent"
  BY <1>1, ZenonT(40) DEF AdcModeEvent, AdcTraceEvent, ADS1115Event, I2CStatsEvent, SPIStatsEvent, GpioEvent, CfgMsg,
              GnssPosStruct, UbxTimeMarkStruct, HistogramCodec, PositionModeConfig, GpioInhibitEvent,
              PreampSwitchEvent
<1> QED
  BY <1>2, <1>3, <1>4

\* A client is sent every type that is measured, and what follows from the DAC.
LEMMA SentAre == MeasuredNames \cup OfDac \cup {"MqttStatusEvent"} \subseteq SentTypes
<1>1. {GpsVersion, CfgGNSS, NavSat, MonTx, MonRx, NavStatus, NavClock, UbxTimePulseStruct, GnssMonHwStruct,
       GnssMonHw2Struct, TemperatureEvent, VersionEvent, LogInfoStruct, BiasSwitchEvent, MCP4728Event,
       PcaSwitchEvent, CalibEvent, GainSwitchEvent, GpioRateEvent, PolaritySwitchEvent,
       ThresholdSettingEvent, BiasVoltageEvent, MqttStatusEvent} \subseteq setupTcpSink
  BY DEF setupTcpSink
<1>2. \A c \in setupTcpSink : c.type \in SentTypes
  BY DEF SentTypes
<1> QED
  BY <1>1, <1>2, CodecTypes DEF MeasuredNames, OfDac

\* Every type that is measured is stored and told.
LEMMA StoredAre == MeasuredNames \cup {"EventTriggerEvent"} \subseteq subscribe_all
BY DEF MeasuredNames, subscribe_all

\* Each of the types has a place in the store.
LEMMA TypesAre ==
    /\ MeasuredNames \cup OfDac \cup SentTypes \cup subscribe_all \cup Sources \cup PlainSources \subseteq Types
    /\ {"MqttStatusEvent", "PreampSwitchEvent", "EventTriggerEvent", "CfgMsg", "AdcModeEvent", "GnssPosStruct",
        "GpioInhibitEvent", "PositionModeConfig"} \subseteq Types
<1>1. AdcModeEvent \in setupTcpSink /\ AdcModeEvent.type = "AdcModeEvent"
  BY DEF setupTcpSink, AdcModeEvent, Codec
<1>2. "AdcModeEvent" \in SentTypes
  BY <1>1 DEF SentTypes
<1>3. {"MqttStatusEvent", "EventTriggerEvent", "GpioInhibitEvent", "PositionModeConfig"} \subseteq subscribe_all
  BY DEF subscribe_all
<1>4. {"CfgMsg", "GnssPosStruct"} \subseteq Sources
  BY DEF Sources
<1> QED
  BY <1>2, <1>3, <1>4, SentAre, StoredAre DEF Types

\* What the handlers of an event may publish, when the store and the hardware are as given.
Outs(e, store, now) ==
    {x \in FlEvents :
        /\ x.kind # "plain" => x.value >= 1 /\ x.type # "MqttStatusEvent"
        /\ x.kind = "signal" => x.type \in LineTypes
        /\ x.kind = "store" => x.value = now[x.type]
        /\ x.type \in OperationNames \cup LineNames => x.value >= 1
        /\ x.kind = "plain" /\ x.type \in MeasuredNames => x.value # 0 /\ x.value = store[x.type]
        /\ x.kind = "plain" /\ x.type \in OfDac =>
              x.value = IF e \in ToTell("MCP4728Event") THEN e.value ELSE store["MCP4728Event"]
        /\ x \in ToTell("MqttStatusEvent") =>
              e.kind = "plain" /\ e.type = "ServerConnCountEvent" /\ x.value = store["MqttStatusEvent"]}

\* The types no property is about.
Neutral(n) == n \in EventNames \ (MeasuredNames \cup OfDac \cup OperationNames \cup LineNames)

\* An event of such a type may always be published.
LEMMA NeutralOut ==
    ASSUME NEW e, NEW store, NEW now, NEW n, Neutral(n), NEW k \in Nat
    PROVE  Plain(n, k) \in Outs(e, store, now) /\ Seq1(Plain(n, k), TRUE) \in Seq(Outs(e, store, now))
<1>1. Plain(n, k) \in FlEvents /\ n # "MqttStatusEvent"
  BY DEF Plain, FlEvents, Neutral, OperationNames
<1>2. Plain(n, k) \in Outs(e, store, now)
  BY <1>1 DEF Outs, Neutral, Plain, ToTell
<1> QED
  BY <1>2 DEF Seq1

\* An event that is published on a condition.
LEMMA ConditionalIs ==
    \A S, x : \A c \in BOOLEAN : (c => x \in S) => Seq1(x, c) \in Seq(S)
BY DEF Seq1

\* The plain events of a sequence of types.
LEMMA PlainsAre ==
    ASSUME NEW S, NEW N, NEW names \in Seq(N), NEW k, \A n \in N : Plain(n, k) \in S
    PROVE  /\ Plains(names, k) \in Seq(S)
           /\ \A kind : \A i \in 1..Len(names) : Plain(names[i], k) \in kind => ~NoneOf(Plains(names, k), kind)
<1>1. DOMAIN names = 1..Len(names) /\ Len(names) \in Nat /\ \A i \in 1..Len(names) : names[i] \in N
  OBVIOUS
<1>2. Plains(names, k) = [i \in 1..Len(names) |-> Plain(names[i], k)]
  BY <1>1 DEF Plains
<1>3. Plains(names, k) \in [1..Len(names) -> S]
  BY <1>1, <1>2
<1>4. Plains(names, k) \in Seq(S)
  BY <1>1, <1>3, SeqDef
<1>5. Len(Plains(names, k)) = Len(names)
  BY <1>1, <1>2, <1>4, LenProperties
<1> QED
  BY <1>2, <1>4, <1>5 DEF NoneOf

\* What is published from the store of a type that the client is told of.
LEMMA StoredIs ==
    ASSUME FlTypeOK, Built, NEW e, NEW said, e \notin ToTell("MCP4728Event"),
           NEW t \in Types, t \notin OfDac, t = "MqttStatusEvent" => e.kind = "plain" /\ e.type = "ServerConnCountEvent",
           flStore[t] # 0
    PROVE  /\ flStore[t] \in Nat /\ Plain(t, flStore[t]) \in Outs(e, flStore, said)
           /\ Plain(t, flStore[t]) \in ToTell(t)
<1>1. flStore[t] \in Nat /\ t \in EventNames
  BY DEF FlTypeOK, EventNames
<1>2. Plain(t, flStore[t]) \in FlEvents
  BY <1>1 DEF Plain, FlEvents
<1>3. "MqttStatusEvent" \notin MeasuredNames
  BY DEF MeasuredNames
<1> QED
  BY <1>1, <1>2, <1>3 DEF Plain, Outs, ToTell

\* ... and when it is stored it is told.
LEMMA StoredOut ==
    ASSUME FlTypeOK, Built, NEW e, NEW said, e \notin ToTell("MCP4728Event"),
           NEW t \in Types, t \notin OfDac, t = "MqttStatusEvent" => e.kind = "plain" /\ e.type = "ServerConnCountEvent"
    PROVE  /\ Stored(t) \in Seq(Outs(e, flStore, said))
           /\ flStore[t] # 0 => ~NoneOf(Stored(t), ToTell(t))
<1>1. CASE flStore[t] # 0
  <2>1. Stored(t) = <<Plain(t, flStore[t])>>
    BY <1>1 DEF Stored, Seq1
  <2>2. Plain(t, flStore[t]) \in Outs(e, flStore, said) /\ Plain(t, flStore[t]) \in ToTell(t)
    BY <1>1, StoredIs
  <2> QED
    BY <2>1, <2>2, OneMessage
<1>2. CASE flStore[t] = 0
  BY <1>2 DEF Stored, Seq1
<1> QED
  BY <1>1, <1>2

\* The requests and the types that are only told are such types.
LEMMA NeutralNames ==
    \A n \in RequestNames \cup
        {"LogParameter", "I2CStatsEvent", "SPIStatsEvent", "Histogram", "shared_ptr<Histogram>", "PositionModeConfig",
         "ADS1115Event", "AdcTraceEvent", "GpioEvent", "EventTriggerEvent", "PreampSwitchEvent", "CfgMsg",
         "GnssPosStruct"} : Neutral(n)
<1>1. {"I2CStatsEvent", "SPIStatsEvent", "ADS1115Event", "AdcTraceEvent", "GpioEvent"} \subseteq SentTypes
  <2>1. {I2CStatsEvent, SPIStatsEvent, ADS1115Event, AdcTraceEvent, GpioEvent} \subseteq setupTcpSink
    BY DEF setupTcpSink
  <2>2. \A c \in setupTcpSink : c.type \in SentTypes
    BY DEF SentTypes
  <2> QED
    BY <2>1, <2>2, CodecTypes
<1>2. {"I2CStatsEvent", "SPIStatsEvent", "ADS1115Event", "AdcTraceEvent", "GpioEvent", "EventTriggerEvent",
       "PreampSwitchEvent", "CfgMsg", "GnssPosStruct", "PositionModeConfig"} \subseteq Types
  BY <1>1, TypesAre
<1>3. RequestNames \cup
        {"LogParameter", "I2CStatsEvent", "SPIStatsEvent", "Histogram", "shared_ptr<Histogram>", "PositionModeConfig",
         "ADS1115Event", "AdcTraceEvent", "GpioEvent", "EventTriggerEvent", "PreampSwitchEvent", "CfgMsg",
         "GnssPosStruct"} \subseteq EventNames
  BY <1>2, NamesAre DEF EventNames
<1>4. \A n \in RequestNames \cup
        {"LogParameter", "I2CStatsEvent", "SPIStatsEvent", "Histogram", "shared_ptr<Histogram>", "PositionModeConfig",
         "ADS1115Event", "AdcTraceEvent", "GpioEvent", "EventTriggerEvent", "PreampSwitchEvent", "CfgMsg",
         "GnssPosStruct"} :
        n \notin MeasuredNames \cup OfDac \cup OperationNames \cup LineNames
  BY DEF RequestNames, MeasuredNames, OfDac, OperationNames, LineNames
<1> QED
  BY <1>3, <1>4 DEF Neutral

\* Where none of a kind is, none of a narrower one is.
LEMMA WiderKind == \A q, kind, wider : kind \subseteq wider /\ NoneOf(q, wider) => NoneOf(q, kind)
BY DEF NoneOf

\* A client that connects: all that is stored is told or asked for.
IsConnect(e) == e \in FlEvents /\ e.kind = "plain" /\ e.type = "ServerConnCountEvent"

\* The requests of pollDatastore().
LEMMA RequestsPolled ==
    ASSUME NEW S, \A n \in RequestNames : Plain(n, 0) \in S
    PROVE  /\ Plains(PolledRequests, 0) \in Seq(S)
           /\ \A t \in {"BiasSwitchEvent", "MCP4728Event", "PcaSwitchEvent", "CalibEvent", "GainSwitchEvent",
                        "GpioRateEvent", "TemperatureEvent", "PolaritySwitchEvent"} :
                 ~NoneOf(Plains(PolledRequests, 0), Asks(t))
<1> DEFINE s == PolledRequests
<1>1. s \in Seq(RequestNames) /\ Len(s) = 10
  BY DEF PolledRequests, RequestNames
<1>2. /\ s[1] = "BiasSwitchRequestCmd" /\ s[2] = "DacSettingRequestCmd" /\ s[3] = "PcaSwitchRequestCmd"
      /\ s[5] = "CalibRequestCmd" /\ s[6] = "GainSwitchRequestCmd" /\ s[7] = "GpioRateRequestCmd"
      /\ s[8] = "TemperatureRequestCmd" /\ s[9] = "PolaritySwitchRequestCmd"
  BY DEF PolledRequests
<1> HIDE DEF s
<1>3. /\ Plains(s, 0) \in Seq(S)
      /\ \A kind : \A i \in 1..Len(s) : Plain(s[i], 0) \in kind => ~NoneOf(Plains(s, 0), kind)
  BY <1>1, PlainsAre
<1>4. /\ Requests["BiasSwitchRequestCmd"] = Answered("BiasSwitchEvent")
      /\ Requests["DacSettingRequestCmd"] = Answered("MCP4728Event")
      /\ Requests["PcaSwitchRequestCmd"] = Answered("PcaSwitchEvent")
      /\ Requests["CalibRequestCmd"] = Answered("CalibEvent")
      /\ Requests["GainSwitchRequestCmd"] = Answered("GainSwitchEvent")
      /\ Requests["GpioRateRequestCmd"] = Answered("GpioRateEvent")
      /\ Requests["TemperatureRequestCmd"] = Answered("TemperatureEvent")
      /\ Requests["PolaritySwitchRequestCmd"] = Answered("PolaritySwitchEvent")
  BY DEF Requests
<1>5. \A t : \A r \in RequestNames : Requests[r] = Answered(t) => Plain(r, 0) \in Asks(t)
  <2> SUFFICES ASSUME NEW r \in RequestNames, NEW t, Requests[r] = Answered(t) PROVE Plain(r, 0) \in Asks(t)
    OBVIOUS
  <2>1. r \in DOMAIN Requests /\ r \in EventNames
    BY NamesAre DEF EventNames
  <2> QED
    BY <2>1 DEF Plain, Asks, FlEvents
<1>6. \A t : \A i \in 1..10 : Requests[s[i]] = Answered(t) => ~NoneOf(Plains(s, 0), Asks(t))
  <2>1. \A i \in 1..10 : i \in 1..Len(s) /\ s[i] \in RequestNames
    BY <1>1, ElementOfSeq
  <2> QED
    BY <1>3, <1>5, <2>1
<1> QED
  BY <1>2, <1>3, <1>4, <1>6 DEF s

\* Five sequences put together.
LEMMA FiveJoined ==
    \A M : \A p, q, r, s, t \in Seq(M) :
        /\ p \o q \o r \o s \o t \in Seq(M)
        /\ \A kind : NoneOf(p \o q \o r \o s \o t, kind) =>
              NoneOf(p, kind) /\ NoneOf(q, kind) /\ NoneOf(r, kind) /\ NoneOf(s, kind) /\ NoneOf(t, kind)
<1> SUFFICES ASSUME NEW M, NEW p \in Seq(M), NEW q \in Seq(M), NEW r \in Seq(M), NEW s \in Seq(M), NEW t \in Seq(M)
             PROVE  /\ p \o q \o r \o s \o t \in Seq(M)
                    /\ \A kind : NoneOf(p \o q \o r \o s \o t, kind) =>
                          NoneOf(p, kind) /\ NoneOf(q, kind) /\ NoneOf(r, kind) /\ NoneOf(s, kind) /\ NoneOf(t, kind)
  OBVIOUS
<1>1. p \o q \in Seq(M) /\ \A kind : NoneOf(p \o q, kind) => NoneOf(p, kind) /\ NoneOf(q, kind)
  BY JoinedIsQueue, JoinedQueue
<1> DEFINE pq == p \o q
<1> HIDE DEF pq
<1>2. pq \o r \in Seq(M) /\ \A kind : NoneOf(pq \o r, kind) => NoneOf(pq, kind) /\ NoneOf(r, kind)
  BY <1>1, JoinedIsQueue, JoinedQueue DEF pq
<1> DEFINE pqr == pq \o r
<1> HIDE DEF pqr
<1>3. pqr \o s \in Seq(M) /\ \A kind : NoneOf(pqr \o s, kind) => NoneOf(pqr, kind) /\ NoneOf(s, kind)
  BY <1>2, JoinedIsQueue, JoinedQueue DEF pqr
<1> DEFINE pqrs == pqr \o s
<1> HIDE DEF pqrs
<1>4. pqrs \o t \in Seq(M) /\ \A kind : NoneOf(pqrs \o t, kind) => NoneOf(pqrs, kind) /\ NoneOf(t, kind)
  BY <1>3, JoinedIsQueue, JoinedQueue DEF pqrs
<1>5. p \o q \o r \o s \o t = pqrs \o t
  BY DEF pq, pqr, pqrs
<1> QED
  BY <1>1, <1>2, <1>3, <1>4, <1>5 DEF pq, pqr, pqrs

\* What pollDatastore() publishes: every type that is stored is told or asked for.
LEMMA PollOut ==
    ASSUME FlTypeOK, Built, NEW e, NEW said, IsConnect(e)
    PROVE  /\ pollDatastore \in Seq(Outs(e, flStore, said))
           /\ \A t \in MeasuredNames : flStore[t] # 0 => ~NoneOf(pollDatastore, ToTell(t) \cup Asks(t))
           /\ ~NoneOf(pollDatastore, Asks("MCP4728Event"))
           /\ flStore["MqttStatusEvent"] # 0 => ~NoneOf(pollDatastore, ToTell("MqttStatusEvent"))
<1> DEFINE S == Outs(e, flStore, said)
           a == Plains(PolledRequests, 0)
           b == PolledOfReceiver
           c == PolledOfDaemon
           d == <<Plain("Histogram", 0)>>
           OfStore == {"GpsVersion", "CfgGNSS", "NavSat", "MonTx", "MonRx", "NavStatus", "NavClock",
                       "UbxTimePulseStruct", "GnssMonHwStruct", "GnssMonHw2Struct"}
           OfDaemon == {"MqttStatusEvent", "GpioInhibitEvent", "TemperatureEvent", "PositionModeConfig",
                        "VersionEvent", "LogInfoStruct"}
<1>1. e \notin ToTell("MCP4728Event") /\ e.kind = "plain" /\ e.type = "ServerConnCountEvent"
  BY DEF IsConnect, ToTell
<1>2. OfStore \cup OfDaemon \subseteq Types /\ (OfStore \cup OfDaemon) \cap OfDac = {}
  BY TypesAre DEF MeasuredNames, OfDac
<1>3. \A t \in OfStore \cup OfDaemon : Stored(t) \in Seq(S) /\ (flStore[t] # 0 => ~NoneOf(Stored(t), ToTell(t)))
  BY <1>1, <1>2, StoredOut
<1>4. /\ a \in Seq(S)
      /\ \A t \in {"BiasSwitchEvent", "MCP4728Event", "PcaSwitchEvent", "CalibEvent", "GainSwitchEvent",
                   "GpioRateEvent", "TemperatureEvent", "PolaritySwitchEvent"} : ~NoneOf(a, Asks(t))
  BY NeutralNames, NeutralOut, RequestsPolled
<1>5. d \in Seq(S)
  <2>1. Plain("Histogram", 0) \in S
    BY NeutralNames, NeutralOut
  <2> QED
    BY <2>1
<1> HIDE DEF S, a, d
<1>6. b \in Seq(S) /\ \A kind : \A t \in OfStore : NoneOf(b, kind) => NoneOf(Stored(t), kind)
  <2> DEFINE first == Stored("GpsVersion") \o Stored("CfgGNSS") \o Stored("NavSat") \o Stored("MonTx") \o Stored("MonRx")
             most == first \o Stored("NavStatus") \o Stored("NavClock") \o Stored("UbxTimePulseStruct")
                       \o Stored("GnssMonHwStruct")
  <2>1. /\ first \in Seq(S)
        /\ \A kind : \A t \in {"GpsVersion", "CfgGNSS", "NavSat", "MonTx", "MonRx"} :
              NoneOf(first, kind) => NoneOf(Stored(t), kind)
    <3>1. /\ Stored("GpsVersion") \in Seq(S) /\ Stored("CfgGNSS") \in Seq(S) /\ Stored("NavSat") \in Seq(S)
          /\ Stored("MonTx") \in Seq(S) /\ Stored("MonRx") \in Seq(S)
      BY <1>3
    <3> HIDE DEF S
    <3>2. /\ first \in Seq(S)
          /\ \A kind : NoneOf(first, kind) =>
                /\ NoneOf(Stored("GpsVersion"), kind) /\ NoneOf(Stored("CfgGNSS"), kind)
                /\ NoneOf(Stored("NavSat"), kind) /\ NoneOf(Stored("MonTx"), kind)
                /\ NoneOf(Stored("MonRx"), kind)
      BY <3>1, FiveJoined, ZenonT(40)
    <3> HIDE DEF first
    <3> QED
      BY <3>2
  <2> HIDE DEF first
  <2>2. /\ most \in Seq(S)
        /\ \A kind : NoneOf(most, kind) => NoneOf(first, kind)
        /\ \A kind : \A t \in {"NavStatus", "NavClock", "UbxTimePulseStruct", "GnssMonHwStruct"} :
              NoneOf(most, kind) => NoneOf(Stored(t), kind)
    <3>1. /\ Stored("NavStatus") \in Seq(S) /\ Stored("NavClock") \in Seq(S)
          /\ Stored("UbxTimePulseStruct") \in Seq(S) /\ Stored("GnssMonHwStruct") \in Seq(S)
      BY <1>3
    <3> HIDE DEF S
    <3>2. /\ most \in Seq(S)
          /\ \A kind : NoneOf(most, kind) =>
                /\ NoneOf(first, kind) /\ NoneOf(Stored("NavStatus"), kind) /\ NoneOf(Stored("NavClock"), kind)
                /\ NoneOf(Stored("UbxTimePulseStruct"), kind) /\ NoneOf(Stored("GnssMonHwStruct"), kind)
      BY <2>1, <3>1, FiveJoined, ZenonT(40)
    <3> HIDE DEF most
    <3> QED
      BY <3>2
  <2>3. b = most \o Stored("GnssMonHw2Struct")
    BY DEF PolledOfReceiver, first
  <2> HIDE DEF most, b
  <2>4. b \in Seq(S) /\ \A kind : NoneOf(b, kind) => NoneOf(most, kind) /\ NoneOf(Stored("GnssMonHw2Struct"), kind)
    BY <1>3, <2>2, <2>3, JoinedIsQueue, JoinedQueue
  <2> QED
    BY <2>1, <2>2, <2>4
<1>7. c \in Seq(S) /\ \A kind : \A t \in OfDaemon : NoneOf(c, kind) => NoneOf(Stored(t), kind)
  <2> DEFINE most == Stored("MqttStatusEvent") \o Stored("GpioInhibitEvent") \o Stored("TemperatureEvent")
                       \o Stored("PositionModeConfig") \o Stored("VersionEvent")
  <2>1. /\ most \in Seq(S)
        /\ \A kind : \A t \in OfDaemon \ {"LogInfoStruct"} : NoneOf(most, kind) => NoneOf(Stored(t), kind)
    <3>1. /\ Stored("MqttStatusEvent") \in Seq(S) /\ Stored("GpioInhibitEvent") \in Seq(S)
          /\ Stored("TemperatureEvent") \in Seq(S) /\ Stored("PositionModeConfig") \in Seq(S)
          /\ Stored("VersionEvent") \in Seq(S)
      BY <1>3
    <3> HIDE DEF S
    <3>2. /\ most \in Seq(S)
          /\ \A kind : NoneOf(most, kind) =>
                /\ NoneOf(Stored("MqttStatusEvent"), kind) /\ NoneOf(Stored("GpioInhibitEvent"), kind)
                /\ NoneOf(Stored("TemperatureEvent"), kind) /\ NoneOf(Stored("PositionModeConfig"), kind)
                /\ NoneOf(Stored("VersionEvent"), kind)
      BY <3>1, FiveJoined, ZenonT(40)
    <3> HIDE DEF most
    <3> QED
      BY <3>2
  <2>2. c = most \o Stored("LogInfoStruct")
    BY DEF PolledOfDaemon
  <2> HIDE DEF most, c
  <2>3. c \in Seq(S) /\ \A kind : NoneOf(c, kind) => NoneOf(most, kind) /\ NoneOf(Stored("LogInfoStruct"), kind)
    BY <1>3, <2>1, <2>2, JoinedIsQueue, JoinedQueue
  <2> QED
    BY <2>1, <2>3
<1> HIDE DEF b, c
<1>8. pollDatastore = ((a \o b) \o c) \o d
  BY DEF pollDatastore, a, b, c, d
<1>9. /\ pollDatastore \in Seq(S)
      /\ \A kind : NoneOf(pollDatastore, kind) => NoneOf(a, kind) /\ NoneOf(b, kind) /\ NoneOf(c, kind)
  <2>1. a \o b \in Seq(S) /\ (a \o b) \o c \in Seq(S)
    BY <1>4, <1>6, <1>7, JoinedIsQueue
  <2>2. \A kind : NoneOf(((a \o b) \o c) \o d, kind) => NoneOf((a \o b) \o c, kind)
    BY <1>5, <2>1, JoinedQueue
  <2>3. \A kind : NoneOf((a \o b) \o c, kind) => NoneOf(a \o b, kind) /\ NoneOf(c, kind)
    BY <1>7, <2>1, JoinedQueue
  <2>4. \A kind : NoneOf(a \o b, kind) => NoneOf(a, kind) /\ NoneOf(b, kind)
    BY <1>4, <1>6, JoinedQueue
  <2> QED
    BY <1>5, <1>8, <2>1, <2>2, <2>3, <2>4, JoinedIsQueue
<1>10. ASSUME NEW t \in MeasuredNames, flStore[t] # 0 PROVE ~NoneOf(pollDatastore, ToTell(t) \cup Asks(t))
  <2>1. \/ t \in OfStore \cup OfDaemon
        \/ t \in {"BiasSwitchEvent", "MCP4728Event", "PcaSwitchEvent", "CalibEvent", "GainSwitchEvent",
                  "GpioRateEvent", "TemperatureEvent", "PolaritySwitchEvent"}
    BY <1>10 DEF MeasuredNames
  <2>2. ~NoneOf(pollDatastore, ToTell(t)) \/ ~NoneOf(pollDatastore, Asks(t))
    <3>1. CASE t \in OfStore \cup OfDaemon
      BY <1>3, <1>6, <1>7, <1>9, <1>10, <3>1
    <3>2. CASE t \notin OfStore \cup OfDaemon
      BY <1>4, <1>9, <2>1, <3>2
    <3> QED
      BY <3>1, <3>2
  <2> QED
    BY <2>2, WiderKind
<1>11. ~NoneOf(pollDatastore, Asks("MCP4728Event"))
  BY <1>4, <1>9
<1>12. flStore["MqttStatusEvent"] # 0 => ~NoneOf(pollDatastore, ToTell("MqttStatusEvent"))
  BY <1>3, <1>7, <1>9
<1> QED
  BY <1>9, <1>10, <1>11, <1>12 DEF S

\* The value of the DAC is told as the thresholds and the bias voltage.
LEMMA OfDacOut ==
    ASSUME NEW e, NEW store, NEW now, NEW n \in OfDac, NEW k \in Nat,
           k = IF e \in ToTell("MCP4728Event") THEN e.value ELSE store["MCP4728Event"]
    PROVE  Plain(n, k) \in Outs(e, store, now)
<1>1. n \in EventNames
  BY TypesAre DEF EventNames
<1>2. Plain(n, k) \in FlEvents
  BY <1>1 DEF Plain, FlEvents
<1>3. n \notin MeasuredNames \cup OperationNames \cup LineNames /\ n # "MqttStatusEvent"
  BY DEF OfDac, MeasuredNames, OperationNames, LineNames
<1> QED
  BY <1>2, <1>3 DEF Outs, Plain, ToTell

\* The answer to a request.
LEMMA RequestOut ==
    ASSUME FlTypeOK, Built, NEW said, NEW e \in FlEvents, e.kind = "plain", e.type \in RequestNames,
           flStore[Requests[e.type].needs] # 0
    PROVE  LET out == Plains(Requests[e.type].sends, flStore[Requests[e.type].needs])
           IN /\ out \in Seq(Outs(e, flStore, said))
              /\ \A x : Requests[e.type] = Answered(x) => ~NoneOf(out, ToTell(x))
<1> DEFINE S == Outs(e, flStore, said)
           need == Requests[e.type].needs
           sends == Requests[e.type].sends
           k == flStore[need]
<1>1. e \notin ToTell("MCP4728Event") /\ e \notin ToTell("MqttStatusEvent")
  BY DEF ToTell, RequestNames
<1>2. /\ need \in MeasuredNames \cup {"EventTriggerEvent", "PreampSwitchEvent", "CfgMsg"}
      /\ \/ sends = <<need>>
         \/ need = "MCP4728Event" /\ sends \in {ThresholdEvents, <<"BiasVoltageEvent">>}
         \/ need = "PreampSwitchEvent" /\ sends = <<"PreampSwitchEvent", "PreampSwitchEvent">>
  BY RequestsAre
<1>3. need \in Types /\ k \in Nat /\ k # 0
  BY <1>2, TypesAre DEF FlTypeOK
<1>4. need \notin OfDac \cup {"MqttStatusEvent"}
  BY <1>2 DEF OfDac, MeasuredNames
<1>5. Plain(need, k) \in S /\ Plain(need, k) \in ToTell(need)
  BY <1>1, <1>3, <1>4, StoredIs
<1>6. \A n \in OfDac : need = "MCP4728Event" => Plain(n, k) \in S
  BY <1>1, <1>3, OfDacOut
<1>7. \A x : Requests[e.type] = Answered(x) => x = need /\ sends = <<need>>
  BY DEF Answered
<1> HIDE DEF S, need, sends, k
<1>8. CASE sends = <<need>>
  <2>1. sends \in Seq({need}) /\ 1 \in 1..Len(sends) /\ sends[1] = need
    BY <1>8
  <2>2. Plains(sends, k) \in Seq(S) /\ ~NoneOf(Plains(sends, k), ToTell(need))
    BY <1>5, <2>1, PlainsAre
  <2> QED
    BY <1>7, <2>2 DEF S, need, sends, k
<1>9. CASE sends # <<need>>
  <2>1. CASE need = "MCP4728Event"
    <3>1. sends \in Seq(OfDac)
      <4>1. ThresholdEvents \in Seq(OfDac) /\ <<"BiasVoltageEvent">> \in Seq(OfDac)
        BY DEF ThresholdEvents, OfDac
      <4> QED
        BY <1>2, <1>9, <2>1, <4>1
    <3>2. Plains(sends, k) \in Seq(S)
      BY <1>6, <2>1, <3>1, PlainsAre
    <3> QED
      BY <1>7, <1>9, <3>2 DEF S, need, sends, k
  <2>2. CASE need # "MCP4728Event"
    <3>1. sends = <<need, need>>
      BY <1>2, <1>9, <2>2
    <3>2. sends \in Seq({need})
      BY <3>1
    <3>3. Plains(sends, k) \in Seq(S)
      BY <1>5, <3>2, PlainsAre
    <3> QED
      BY <1>7, <1>9, <3>3 DEF S, need, sends, k
  <2> QED
    BY <2>1, <2>2
<1> QED
  BY <1>8, <1>9

\* The last part of what the handlers of a plain event publish.
Commanded(t, v) ==
    CASE t = "AdcModeRequestCmd" -> <<Plain("AdcModeEvent", flNow["AdcModeEvent"])>>
      [] t = "I2CStatsRequestCmd" -> <<Plain("I2CStatsEvent", v)>>
      [] t = "SPIStatsRequestCmd" -> <<Plain("SPIStatsEvent", v)>>
      [] t = "HistogramRequestCmd" -> <<Plain("Histogram", 0)>>
      [] t = "HistogramClearCmd" -> <<Plain("shared_ptr<Histogram>", 0)>>
      [] t = "PositionModeCmd" -> <<Plain("PositionModeConfig", v)>>
      [] t = "ServerConnCountEvent" ->
           pollDatastore \o Seq1(Plain("GnssPosStruct", flNow["GnssPosStruct"]), flMode = "Static")
      [] t \in DOMAIN LineCommands -> <<GpioSignalSetCmd(LineCommands[t], v)>>
      [] OTHER -> <<>>

\* What the handlers of one event publish besides.
LEMMA CommandedOut ==
    ASSUME FlTypeOK, Built, NEW said, NEW e \in FlEvents, e.kind = "plain", e.type \in LineNames => e.value >= 1,
           flNow \in [Types -> Nat], flNow["AdcModeEvent"] >= 1
    PROVE  LET out == Commanded(e.type, e.value)
           IN /\ out \in Seq(Outs(e, flStore, said))
              /\ e.type = "ServerConnCountEvent" =>
                    /\ \A t \in MeasuredNames : flStore[t] # 0 => ~NoneOf(out, ToTell(t) \cup Asks(t))
                    /\ ~NoneOf(out, Asks("MCP4728Event"))
                    /\ flStore["MqttStatusEvent"] # 0 => ~NoneOf(out, ToTell("MqttStatusEvent"))
<1> DEFINE S == Outs(e, flStore, said)
           t == e.type
           v == e.value
           out == Commanded(t, v)
<1>1. v \in Nat /\ t \in EventNames
  BY DEF FlEvents
<1>3. CASE t = "AdcModeRequestCmd"
  <2>1. out = <<Plain("AdcModeEvent", flNow["AdcModeEvent"])>>
    BY <1>3, NamesAre DEF Commanded, LineNames
  <2>2. "AdcModeEvent" \in EventNames /\ flNow["AdcModeEvent"] \in Nat
    BY TypesAre DEF EventNames, FlTypeOK
  <2>3. "AdcModeEvent" \notin MeasuredNames \cup OfDac
    BY DEF MeasuredNames, OfDac
  <2>4. Plain("AdcModeEvent", flNow["AdcModeEvent"]) \in S
    BY <2>2, <2>3 DEF Outs, Plain, FlEvents, ToTell
  <2> HIDE DEF S, out
  <2>5. out \in Seq(S)
    BY <2>1, <2>4
  <2> QED
    BY <1>3, <2>5 DEF S, out
<1>4. CASE t \in {"I2CStatsRequestCmd", "SPIStatsRequestCmd", "HistogramRequestCmd", "HistogramClearCmd",
                  "PositionModeCmd"}
  <2>1. \/ out = <<Plain("I2CStatsEvent", v)>> \/ out = <<Plain("SPIStatsEvent", v)>>
        \/ out = <<Plain("Histogram", 0)>> \/ out = <<Plain("shared_ptr<Histogram>", 0)>>
        \/ out = <<Plain("PositionModeConfig", v)>>
    BY <1>4, NamesAre DEF Commanded, LineNames
  <2>2. \A k \in Nat : /\ Plain("I2CStatsEvent", k) \in S /\ Plain("SPIStatsEvent", k) \in S
                       /\ Plain("Histogram", k) \in S /\ Plain("shared_ptr<Histogram>", k) \in S
                       /\ Plain("PositionModeConfig", k) \in S
    BY NeutralNames, NeutralOut
  <2> HIDE DEF S, out
  <2>3. \A x \in S : <<x>> \in Seq(S)
    OBVIOUS
  <2>4. out \in Seq(S)
    BY <1>1, <2>1, <2>2, <2>3, Zenon
  <2> QED
    BY <1>4, <2>4 DEF S, out
<1>5. CASE t = "ServerConnCountEvent"
  <2> DEFINE rest == Seq1(Plain("GnssPosStruct", flNow["GnssPosStruct"]), flMode = "Static")
  <2>1. out = pollDatastore \o rest
    BY <1>5, NamesAre DEF Commanded, LineNames
  <2>2. flNow["GnssPosStruct"] \in Nat
    BY TypesAre DEF FlTypeOK
  <2>3. Plain("GnssPosStruct", flNow["GnssPosStruct"]) \in S
    BY <2>2, NeutralNames, NeutralOut
  <2>4. rest \in Seq(S)
    BY <2>3 DEF Seq1
  <2>5. /\ pollDatastore \in Seq(S)
        /\ \A x \in MeasuredNames : flStore[x] # 0 => ~NoneOf(pollDatastore, ToTell(x) \cup Asks(x))
        /\ ~NoneOf(pollDatastore, Asks("MCP4728Event"))
        /\ flStore["MqttStatusEvent"] # 0 => ~NoneOf(pollDatastore, ToTell("MqttStatusEvent"))
    BY <1>5, PollOut DEF IsConnect
  <2> HIDE DEF S, rest
  <2>6. pollDatastore \o rest \in Seq(S) /\ \A kind : NoneOf(pollDatastore \o rest, kind) => NoneOf(pollDatastore, kind)
    BY <2>4, <2>5, JoinedIsQueue, JoinedQueue
  <2> QED
    BY <1>5, <2>1, <2>5, <2>6 DEF S
<1>6. CASE t \in LineNames
  <2>1. out = <<GpioSignalSetCmd(LineCommands[t], v)>>
    BY <1>6, NamesAre DEF Commanded, LineNames
  <2>2. LineCommands[t] \in LineTypes /\ LineTypes \subseteq EventNames
    BY <1>6, LinesAre, TypesAre DEF EventNames, MeasuredNames, LineTypes
  <2>3. LineTypes \cap (OperationNames \cup LineNames) = {} /\ "MqttStatusEvent" \notin LineTypes
    BY DEF LineTypes, OperationNames, LineNames
  <2>4. GpioSignalSetCmd(LineCommands[t], v) \in S
    BY <1>1, <1>6, <2>2, <2>3 DEF GpioSignalSetCmd, Outs, FlEvents, ToTell
  <2> QED
    BY <1>6, <2>1, <2>4 DEF LineNames
<1>7. CASE t \notin {"AdcModeRequestCmd", "I2CStatsRequestCmd", "SPIStatsRequestCmd", "HistogramRequestCmd",
                     "HistogramClearCmd", "PositionModeCmd", "ServerConnCountEvent"} \cup LineNames
  <2>1. out = <<>>
    BY <1>7, NamesAre DEF Commanded
  <2> QED
    BY <1>7, <2>1
<1> QED
  BY <1>3, <1>4, <1>5, <1>6, <1>7

\* All that the handlers of a plain event publish.
LEMMA PlainOut ==
    ASSUME FlTypeOK, Built, NEW said, NEW e \in FlEvents, e.kind = "plain", e.type \in LineNames => e.value >= 1,
           flNow \in [Types -> Nat], flNow["AdcModeEvent"] >= 1
    PROVE  LET out == PlainOutputs(e.type, e.value)
           IN /\ out \in Seq(Outs(e, flStore, said))
              /\ \A t \in MeasuredNames : e \in Asks(t) /\ flStore[t] # 0 => ~NoneOf(out, ToTell(t) \cup Asks(t))
              /\ e \in Asks("MCP4728Event") => e.type = "DacSettingRequestCmd" \/ ~NoneOf(out, Asks("MCP4728Event"))
              /\ e \in ToTell("MCP4728Event") => \A t \in OfDac : ~NoneOf(out, ToTell(t))
              /\ IsConnect(e) /\ flStore["MqttStatusEvent"] # 0 => ~NoneOf(out, ToTell("MqttStatusEvent"))
<1> DEFINE S == Outs(e, flStore, said)
           t == e.type
           v == e.value
           a == IF t \in DOMAIN Requests /\ flStore[Requests[t].needs] # 0
                  THEN Plains(Requests[t].sends, flStore[Requests[t].needs]) ELSE <<>>
           b == Seq1(Plain("LogParameter", v), t \in LoggedOfBoard \cup LoggedOfReceiver)
           c == IF t = "MCP4728Event" THEN Plains(ThresholdEvents \o <<"BiasVoltageEvent">>, v) ELSE <<>>
           d == Commanded(t, v)
           out == PlainOutputs(t, v)
<1>1. v \in Nat
  BY DEF FlEvents
<1>2. /\ a \in Seq(S)
      /\ \A x : t \in RequestNames /\ Requests[t] = Answered(x) /\ flStore[x] # 0 => ~NoneOf(a, ToTell(x))
  <2>1. CASE t \in RequestNames /\ flStore[Requests[t].needs] # 0
    <3>1. a = Plains(Requests[t].sends, flStore[Requests[t].needs])
      BY <2>1, NamesAre
    <3> QED
      BY <2>1, <3>1, RequestOut
  <2>2. CASE ~(t \in RequestNames /\ flStore[Requests[t].needs] # 0)
    <3>1. a = <<>>
      BY <2>2, NamesAre
    <3>2. \A x : Requests[t] = Answered(x) => Requests[t].needs = x
      BY DEF Answered
    <3>3. \A x : ~(t \in RequestNames /\ Requests[t] = Answered(x) /\ flStore[x] # 0)
      BY <2>2, <3>2, Zenon
    <3>4. <<>> \in Seq(S)
      OBVIOUS
    <3>5. a \in Seq(S)
      BY <3>1, <3>4, Zenon
    <3> QED
      BY <3>3, <3>5, Zenon
  <2> QED
    BY <2>1, <2>2
<1>3. b \in Seq(S)
  <2>1. Plain("LogParameter", v) \in S
    BY <1>1, NeutralNames, NeutralOut
  <2> QED
    BY <2>1 DEF Seq1
<1>4. c \in Seq(S) /\ (t = "MCP4728Event" => \A x \in OfDac : ~NoneOf(c, ToTell(x)))
  <2>1. CASE t = "MCP4728Event"
    <3> DEFINE names == ThresholdEvents \o <<"BiasVoltageEvent">>
    <3>1. names \in Seq(OfDac) /\ Len(names) = 3 /\ names[1] = "ThresholdSettingEvent" /\ names[3] = "BiasVoltageEvent"
      BY DEF ThresholdEvents, OfDac
    <3>2. e \in ToTell("MCP4728Event")
      BY <2>1 DEF ToTell
    <3>3. \A n \in OfDac : Plain(n, v) \in S
      BY <1>1, <3>2, OfDacOut
    <3>4. \A n \in OfDac : Plain(n, v) \in ToTell(n)
      BY <3>3 DEF Outs, ToTell, Plain
    <3>5. c = Plains(names, v)
      BY <2>1
    <3> HIDE DEF S, names, c
    <3>6. /\ Plains(names, v) \in Seq(S)
          /\ \A kind : \A i \in 1..Len(names) : Plain(names[i], v) \in kind => ~NoneOf(Plains(names, v), kind)
      BY <3>1, <3>3, PlainsAre
    <3>7. 1 \in 1..Len(names) /\ 3 \in 1..Len(names)
      BY <3>1
    <3>8. \A x \in OfDac : x = names[1] \/ x = names[3]
      BY <3>1 DEF OfDac
    <3> QED
      BY <2>1, <3>4, <3>5, <3>6, <3>7, <3>8
  <2>2. CASE t # "MCP4728Event"
    BY <2>2
  <2> QED
    BY <2>1, <2>2
<1>5. /\ d \in Seq(S)
      /\ t = "ServerConnCountEvent" =>
            /\ \A x \in MeasuredNames : flStore[x] # 0 => ~NoneOf(d, ToTell(x) \cup Asks(x))
            /\ ~NoneOf(d, Asks("MCP4728Event"))
            /\ flStore["MqttStatusEvent"] # 0 => ~NoneOf(d, ToTell("MqttStatusEvent"))
  BY CommandedOut
<1>6. out = a \o b \o c \o d
  BY DEF PlainOutputs, Commanded
<1>7. \A x : e \in Asks(x) => t = "ServerConnCountEvent" \/ (t \in RequestNames /\ Requests[t] = Answered(x))
  BY NamesAre DEF Asks
<1> HIDE DEF S, a, b, c, d, out
<1>8. /\ out \in Seq(S)
      /\ \A kind : NoneOf(out, kind) => NoneOf(a, kind) /\ NoneOf(c, kind) /\ NoneOf(d, kind)
  <2>1. a \o b \in Seq(S) /\ \A kind : NoneOf(a \o b, kind) => NoneOf(a, kind)
    BY <1>2, <1>3, JoinedIsQueue, JoinedQueue
  <2> DEFINE ab == a \o b
  <2> HIDE DEF ab
  <2>2. ab \o c \in Seq(S) /\ \A kind : NoneOf(ab \o c, kind) => NoneOf(ab, kind) /\ NoneOf(c, kind)
    BY <1>4, <2>1, JoinedIsQueue, JoinedQueue DEF ab
  <2> DEFINE abc == ab \o c
  <2> HIDE DEF abc
  <2>3. abc \o d \in Seq(S) /\ \A kind : NoneOf(abc \o d, kind) => NoneOf(abc, kind) /\ NoneOf(d, kind)
    BY <1>5, <2>2, JoinedIsQueue, JoinedQueue DEF abc
  <2>4. out = abc \o d
    BY <1>6 DEF ab, abc
  <2> QED
    BY <2>1, <2>2, <2>3, <2>4 DEF ab, abc
<1>9. ASSUME NEW x \in MeasuredNames, e \in Asks(x), flStore[x] # 0 PROVE ~NoneOf(out, ToTell(x) \cup Asks(x))
  <2>1. CASE t = "ServerConnCountEvent"
    BY <1>5, <1>8, <1>9, <2>1
  <2>2. CASE t \in RequestNames /\ Requests[t] = Answered(x)
    <3>1. ~NoneOf(a, ToTell(x))
      BY <1>2, <1>9, <2>2
    <3> QED
      BY <1>8, <3>1, WiderKind
  <2> QED
    BY <1>7, <1>9, <2>1, <2>2
<1>10. ASSUME e \in Asks("MCP4728Event"), t # "DacSettingRequestCmd" PROVE ~NoneOf(out, Asks("MCP4728Event"))
  <2>1. t = "ServerConnCountEvent"
    BY <1>7, <1>10, RequestsAre
  <2> QED
    BY <1>5, <1>8, <2>1
<1>11. ASSUME e \in ToTell("MCP4728Event") PROVE \A x \in OfDac : ~NoneOf(out, ToTell(x))
  BY <1>4, <1>8, <1>11 DEF ToTell
<1>12. ASSUME IsConnect(e), flStore["MqttStatusEvent"] # 0 PROVE ~NoneOf(out, ToTell("MqttStatusEvent"))
  BY <1>5, <1>8, <1>12 DEF IsConnect
<1> QED
  BY <1>8, <1>9, <1>10, <1>11, <1>12 DEF S, out

FlowTyped(store, told, said) == store \in [Types -> Nat] /\ told \in [Types -> Nat] /\ said \in [Types -> Nat]

\* The delivery of an event, whatever its kind, as far as the store and the client are concerned.
Delivers(e, out) ==
    /\ flQueue # <<>> /\ e = Head(flQueue)
    /\ flQueue' = Tail(flQueue) \o out /\ out \in Seq(Outs(e, flStore', flSaid'))
    /\ flClient' = flClient /\ flCount' \in Nat /\ FlowTyped(flStore', flTold', flSaid')
    /\ \A t \in MeasuredNames :
          /\ IF e \in ToStore(t) THEN flStore'[t] = e.value /\ ~NoneOf(out, ToTell(t)) ELSE flStore'[t] = flStore[t]
          /\ flSaid'[t] = flSaid[t] \/ ~NoneOf(out, ToStore(t))
          /\ e \in Asks(t) /\ flStore[t] # 0 => ~NoneOf(out, ToTell(t) \cup Asks(t))
    /\ \A t \in MeasuredNames \cup OfDac \cup {"MqttStatusEvent"} :
          flTold'[t] = IF flClient /\ e \in ToTell(t) THEN e.value ELSE flTold[t]
    /\ e \in Asks("MCP4728Event") => ~NoneOf(out, ToStore("MCP4728Event") \cup Asks("MCP4728Event"))
    /\ e \in ToTell("MCP4728Event") => \A t \in OfDac : ~NoneOf(out, ToTell(t))
    /\ IsConnect(e) /\ flStore["MqttStatusEvent"] # 0 => ~NoneOf(out, ToTell("MqttStatusEvent"))
    /\ IF e \in ToTell("MqttStatusEvent")
         THEN flStore'["MqttStatusEvent"] = e.value /\ flSaid'["MqttStatusEvent"] = e.value
         ELSE flStore'["MqttStatusEvent"] = flStore["MqttStatusEvent"] /\ flSaid'["MqttStatusEvent"] = flSaid["MqttStatusEvent"]
    /\ flSaid'["MCP4728Event"] >= 1

\* The event at the head of the queue.
LEMMA HeadIs ==
    ASSUME FlTypeOK, ValuesAreKnown, flQueue # <<>>
    PROVE  LET e == Head(flQueue)
           IN /\ Built /\ FlowTyped(flStore, flTold, flSaid) /\ e \in FlEvents /\ Tail(flQueue) \in Seq(FlEvents)
              /\ e.kind \in {"store", "signal"} => e.value >= 1 /\ e.type # "MqttStatusEvent"
              /\ e.kind = "signal" => e.type \in LineTypes
              /\ e.type \in OperationNames \cup LineNames => e.value >= 1
              /\ flSaid["MCP4728Event"] >= 1
<1>1. Built /\ FlowTyped(flStore, flTold, flSaid)
  BY DEF FlTypeOK, FlowTyped
<1>2. flQueue \in Seq(FlEvents) /\ 1 \in 1..Len(flQueue) /\ Head(flQueue) = flQueue[1]
  BY DEF FlTypeOK
<1>3. Head(flQueue) \in FlEvents /\ Tail(flQueue) \in Seq(FlEvents)
  BY <1>2
<1>4. Head(flQueue) \in KnownEvents
  <2>1. \A q \in Seq(KnownEvents) : q # <<>> => Head(q) \in KnownEvents
    OBVIOUS
  <2> QED
    BY <2>1 DEF ValuesAreKnown
<1> QED
  BY <1>1, <1>3, <1>4, NamesAre, LinesAre DEF ValuesAreKnown, KnownEvents

\* A value is reported.
LEMMA SaidChanges ==
    ASSUME FlowTyped(flStore, flTold, flSaid), NEW t \in Types, NEW w \in Nat, flSaid' = [flSaid EXCEPT ![t] = w]
    PROVE  flSaid' \in [Types -> Nat] /\ flSaid'[t] = w /\ \A x \in Types : x # t => flSaid'[x] = flSaid[x]
<1>1. flSaid \in [Types -> Nat]
  BY DEF FlowTyped
<1>2. \A T : \A f \in [T -> Nat] : \A k \in T : \A n \in Nat :
          /\ [f EXCEPT ![k] = n] \in [T -> Nat] /\ [f EXCEPT ![k] = n][k] = n
          /\ \A x \in T : x # k => [f EXCEPT ![k] = n][x] = f[x]
  OBVIOUS
<1> QED
  BY <1>1, <1>2

\* The events of one report: the value to be stored, and others that tell no value.
Untold == {e \in FlEvents : e.kind = "plain" /\ e.type \in {"LogParameter", "GpioEvent"}}
ReportOf(out, t, w) ==
    out \in Seq({Wrapped(t, w)} \cup Untold) /\ \E p \in 1..Len(out) : out[p] = Wrapped(t, w)

\* What a report publishes.
LEMMA ReportOut ==
    ASSUME NEW e, NEW store, NEW said, NEW t \in MeasuredNames \cup {"EventTriggerEvent", "PreampSwitchEvent"},
           NEW w \in Nat, w >= 1, said[t] = w, NEW out, ReportOf(out, t, w)
    PROVE  out \in Seq(Outs(e, store, said)) /\ ~NoneOf(out, ToStore(t))
<1> DEFINE S == Outs(e, store, said)
           x == Wrapped(t, w)
<1>1. t \in EventNames /\ t # "MqttStatusEvent" /\ t \notin OperationNames \cup LineNames
  BY TypesAre DEF EventNames, MeasuredNames, OperationNames, LineNames
<1>2. x \in ToStore(t) /\ x \in S
  BY <1>1 DEF Wrapped, ToStore, ToTell, Outs, FlEvents
<1>3. Untold \subseteq S
  <2> SUFFICES ASSUME NEW y \in Untold PROVE y \in S
    OBVIOUS
  <2>1. Neutral(y.type) /\ y \in FlEvents /\ y.kind = "plain"
    BY NeutralNames DEF Untold
  <2>2. y.type # "MqttStatusEvent"
    BY <2>1 DEF Neutral, OperationNames
  <2> QED
    BY <2>1, <2>2 DEF Outs, Neutral, ToTell
<1> HIDE DEF x, S
<1>4. out \in Seq({x} \cup Untold) /\ \E p \in 1..Len(out) : out[p] = x
  BY DEF ReportOf, x
<1>5. out \in Seq(S)
  BY <1>2, <1>3, <1>4
<1>6. ~NoneOf(out, ToStore(t))
  BY <1>2, <1>4 DEF NoneOf
<1> QED
  BY <1>5, <1>6 DEF S

\* The shapes of reports.
LEMMA ReportsAre ==
    ASSUME NEW t, NEW w, NEW v \in Nat
    PROVE  /\ ReportOf(<<Wrapped(t, w)>>, t, w)
           /\ ReportOf(<<>> \o <<Wrapped(t, w)>>, t, w)
           /\ ReportOf(<<Plain("GpioEvent", v), Wrapped(t, w)>>, t, w)
           /\ ReportOf(<<Plain("GpioEvent", v), Plain("GpioEvent", v), Wrapped(t, w)>>, t, w)
           /\ ReportOf(<<Wrapped(t, w), Plain("LogParameter", v)>>, t, w)
<1> DEFINE g == Plain("GpioEvent", v)
           l == Plain("LogParameter", v)
           x == Wrapped(t, w)
           S == {x} \cup Untold
<1>1. g \in S /\ l \in S /\ x \in S
  BY NeutralNames DEF Untold, Plain, FlEvents, Neutral
<1> HIDE DEF S, g, l, x
<1>2. <<x>> \in Seq(S) /\ <<g, x>> \in Seq(S) /\ <<g, g, x>> \in Seq(S) /\ <<x, l>> \in Seq(S)
  BY <1>1
<1>3. /\ Len(<<x>>) = 1 /\ Len(<<g, x>>) = 2 /\ Len(<<g, g, x>>) = 3 /\ Len(<<x, l>>) = 2
      /\ <<x>>[1] = x /\ <<g, x>>[2] = x /\ <<g, g, x>>[3] = x /\ <<x, l>>[1] = x
      /\ <<>> \o <<x>> = <<x>>
  OBVIOUS
<1>4. /\ \E p \in 1..Len(<<x>>) : <<x>>[p] = x
      /\ \E p \in 1..Len(<<g, x>>) : <<g, x>>[p] = x
      /\ \E p \in 1..Len(<<g, g, x>>) : <<g, g, x>>[p] = x
      /\ \E p \in 1..Len(<<x, l>>) : <<x, l>>[p] = x
  BY <1>3
<1>5. /\ <<x>> \in Seq({x} \cup Untold) /\ <<g, x>> \in Seq({x} \cup Untold)
      /\ <<g, g, x>> \in Seq({x} \cup Untold) /\ <<x, l>> \in Seq({x} \cup Untold)
  BY <1>2 DEF S
<1> QED
  BY <1>3, <1>4, <1>5, Zenon DEF ReportOf, g, l, x

\* What the receivers of a signal do.
LEMMA SignalDelivers ==
    ASSUME FlTypeOK, ValuesAreKnown, DeliverSignal
    PROVE  \E out : Delivers(Head(flQueue), out)
<1> DEFINE e == Head(flQueue)
           t == e.type
           v == e.value
           out == <<Plain("GpioEvent", v), Wrapped(t, v)>>
<1>1. flQueue # <<>> /\ e.kind = "signal" /\ flStore' = flStore /\ flTold' = flTold /\ flClient' = flClient
  BY DEF DeliverSignal
<1>2. /\ FlowTyped(flStore, flTold, flSaid) /\ e \in FlEvents /\ v >= 1 /\ t \in LineTypes
      /\ flSaid["MCP4728Event"] >= 1
  BY <1>1, HeadIs
<1>3. t \in Types /\ v \in Nat /\ t \in MeasuredNames \cup {"PreampSwitchEvent"}
  BY <1>2, TypesAre DEF FlEvents, LineTypes, MeasuredNames
<1>4. t \notin {"MCP4728Event", "MqttStatusEvent"}
  BY <1>2 DEF LineTypes
<1>5. \A x : e \notin ToStore(x) /\ e \notin ToTell(x) /\ e \notin Asks(x)
  BY <1>1 DEF ToStore, ToTell, Asks
<1>6. ~IsConnect(e)
  BY <1>1 DEF IsConnect
<1>7. CASE Works /\ Reports(t, v) /\ Handled(out)
  <2>1. flSaid' = [flSaid EXCEPT ![t] = v] /\ flQueue' = Tail(flQueue) \o out /\ flCount' \in Nat
    BY <1>7 DEF Works, Reports, Handled, FlTypeOK
  <2>2. /\ flSaid' \in [Types -> Nat] /\ flSaid'[t] = v
        /\ \A x \in MeasuredNames : x # t => flSaid'[x] = flSaid[x]
        /\ flSaid'["MCP4728Event"] = flSaid["MCP4728Event"]
        /\ flSaid'["MqttStatusEvent"] = flSaid["MqttStatusEvent"]
    <3>1. flSaid' \in [Types -> Nat] /\ flSaid'[t] = v /\ \A x \in Types : x # t => flSaid'[x] = flSaid[x]
      BY <1>2, <1>3, <2>1, SaidChanges
    <3>2. MeasuredNames \cup {"MCP4728Event", "MqttStatusEvent"} \subseteq Types
      BY TypesAre DEF MeasuredNames
    <3> QED
      BY <1>4, <3>1, <3>2
  <2>3. out \in Seq(Outs(e, flStore', flSaid')) /\ ~NoneOf(out, ToStore(t))
    <3>1. ReportOf(out, t, v)
      BY <1>3, ReportsAre
    <3> HIDE DEF out
    <3> QED
      BY <1>2, <1>3, <2>2, <3>1, ReportOut
  <2>4. FlowTyped(flStore', flTold', flSaid')
    BY <1>1, <1>2, <2>2 DEF FlowTyped
  <2> HIDE DEF out
  <2>5. Delivers(e, out)
    BY <1>1, <1>2, <1>5, <1>6, <2>1, <2>2, <2>3, <2>4 DEF Delivers
  <2> QED
    BY <2>5
<1>8. CASE Fails /\ Handled(<<>>) /\ UNCHANGED flTruth
  <2>1. /\ flQueue' = Tail(flQueue) \o <<>> /\ <<>> \in Seq(Outs(e, flStore', flSaid')) /\ flCount' \in Nat
        /\ flSaid' = flSaid
    BY <1>8 DEF Fails, Handled, FlTypeOK, flTruth
  <2>2. Delivers(e, <<>>)
    BY <1>1, <1>2, <1>5, <1>6, <2>1 DEF Delivers
  <2> QED
    BY <2>2
<1> QED
  BY <1>7, <1>8 DEF DeliverSignal

\* What the store does with a wrapped event.
LEMMA WrappedDelivers ==
    ASSUME FlTypeOK, ValuesAreKnown, DeliverWrapped
    PROVE  \E out : Delivers(Head(flQueue), out)
<1> DEFINE e == Head(flQueue)
           t == e.type
           v == e.value
           kept == t \in subscribe_all \cup {"PreampSwitchEvent", "CfgMsg"}
           S == Outs(e, flStore', flSaid')
<1>1. /\ flQueue # <<>> /\ e.kind = "store" /\ flSaid' = flSaid /\ flTold' = flTold /\ flClient' = flClient
      /\ flStore' = IF kept THEN [flStore EXCEPT ![t] = v] ELSE flStore
      /\ flCount' \in Nat
  BY DEF DeliverWrapped, FlTypeOK, flTruth
<1>2. /\ FlowTyped(flStore, flTold, flSaid) /\ e \in FlEvents /\ v >= 1 /\ t # "MqttStatusEvent"
      /\ flSaid["MCP4728Event"] >= 1
  BY <1>1, HeadIs
<1>3. v \in Nat /\ t \in EventNames
  BY <1>2 DEF FlEvents
<1>4. /\ \A x : e \notin ToTell(x) /\ e \notin Asks(x)
      /\ \A x : e \in ToStore(x) <=> x = t
      /\ ~IsConnect(e)
  BY <1>1, <1>2 DEF ToStore, ToTell, Asks, IsConnect
<1>5. FlowTyped(flStore', flTold', flSaid')
  BY <1>1, <1>2, <1>3 DEF FlowTyped
<1>6. /\ \A x \in Types : x # t => flStore'[x] = flStore[x]
      /\ t \in MeasuredNames => flStore'[t] = v
  <2>1. t \in MeasuredNames => kept /\ t \in Types
    BY StoredAre, TypesAre
  <2> QED
    BY <1>1, <1>2, <2>1 DEF FlowTyped
<1>7. \A k \in Nat : /\ Plain("PreampSwitchRequestCmd", k) \in S /\ Plain("CfgMsg", k) \in S
                     /\ Plain("GnssPosStruct", k) \in S /\ Plain("LogParameter", k) \in S
  <2>1. "PreampSwitchRequestCmd" \in RequestNames
    BY DEF RequestNames
  <2> QED
    BY <2>1, NeutralNames, NeutralOut
<1>8. ASSUME t \in subscribe_all PROVE Plain(t, v) \in S /\ Plain(t, v) \in ToTell(t)
  <2>1. t \notin OfDac
    BY <1>8 DEF subscribe_all, OfDac
  <2> QED
    BY <1>2, <1>3, <1>6, <2>1 DEF Plain, Outs, FlEvents, ToTell
<1>9. \E out \in Seq(S) : flQueue' = Tail(flQueue) \o out /\ (t \in MeasuredNames => ~NoneOf(out, ToTell(t)))
  <2> HIDE DEF S
  <2>1. \A x, y \in S : <<>> \in Seq(S) /\ <<x>> \in Seq(S) /\ <<x, y>> \in Seq(S)
    OBVIOUS
  <2>2. CASE t = "GnssPosStruct"
    <3>1. flQueue' = Tail(flQueue) \o processGeoPos(v) \/ flQueue' = Tail(flQueue) \o <<>>
      BY <2>2 DEF DeliverWrapped, Handled
    <3>2. processGeoPos(v) \in Seq(S) /\ <<>> \in Seq(S)
      BY <1>3, <1>7, <2>1 DEF processGeoPos
    <3> QED
      BY <2>2, <3>1, <3>2 DEF MeasuredNames
  <2>3. CASE t # "GnssPosStruct"
    <3>1. flQueue' = Tail(flQueue) \o StoreOutputs(t, v)
      BY <2>3 DEF DeliverWrapped, Handled
    <3>2. CASE t \in subscribe_all
      <4>1. StoreOutputs(t, v) = <<Plain(t, v)>>
        BY <3>2 DEF StoreOutputs, subscribe_one, subscribe_all
      <4> QED
        BY <1>8, <2>1, <3>1, <3>2, <4>1, OneMessage
    <3>3. CASE t \notin subscribe_all
      <4>1. /\ t = "PreampSwitchEvent" => StoreOutputs(t, v) = storePreamp
            /\ t = "CfgMsg" => StoreOutputs(t, v) = Seq1(Plain("CfgMsg", v), flStore["CfgMsg"] # v)
            /\ t \notin {"PreampSwitchEvent", "CfgMsg"} => StoreOutputs(t, v) = <<>>
        BY <3>3 DEF StoreOutputs
      <4>2. storePreamp \in Seq(S) /\ Seq1(Plain("CfgMsg", v), flStore["CfgMsg"] # v) \in Seq(S)
        BY <1>3, <1>7, <2>1 DEF storePreamp, Seq1
      <4>3. <<>> \in Seq(S)
        OBVIOUS
      <4>4. StoreOutputs(t, v) \in Seq(S)
        BY <4>1, <4>2, <4>3
      <4> QED
        BY <3>1, <3>3, <4>4, StoredAre
    <3> QED
      BY <3>2, <3>3
  <2> QED
    BY <2>2, <2>3
<1>10. PICK out \in Seq(S) : flQueue' = Tail(flQueue) \o out /\ (t \in MeasuredNames => ~NoneOf(out, ToTell(t)))
  BY <1>9
<1>11. flStore'["MqttStatusEvent"] = flStore["MqttStatusEvent"]
  BY <1>2, <1>6, TypesAre
<1>12. \A x \in MeasuredNames :
          IF e \in ToStore(x) THEN flStore'[x] = v /\ ~NoneOf(out, ToTell(x)) ELSE flStore'[x] = flStore[x]
  BY <1>4, <1>6, <1>10, TypesAre
<1>13. Delivers(e, out)
  BY <1>1, <1>2, <1>4, <1>5, <1>10, <1>11, <1>12 DEF Delivers
<1> QED
  BY <1>13

\* The commands whose handlers tell nothing else.
LEMMA QuietOperations ==
    \A v : \A t \in {"GpioInhibitEvent", "AdcModeEvent", "MqttStatusEvent"} : PlainOutputs(t, v) = <<>>
<1> SUFFICES ASSUME NEW t \in {"GpioInhibitEvent", "AdcModeEvent", "MqttStatusEvent"}, NEW v
             PROVE  PlainOutputs(t, v) = <<>>
  OBVIOUS
<1>1. t \notin DOMAIN Requests /\ t \notin DOMAIN LineCommands
  BY NamesAre DEF RequestNames, LineNames
<1>2. t \notin LoggedOfBoard \cup LoggedOfReceiver
  BY DEF LoggedOfBoard, LoggedOfReceiver
<1>3. Commanded(t, v) = <<>>
  BY <1>1 DEF Commanded
<1>4. PlainOutputs(t, v) = <<>> \o <<>> \o <<>> \o <<>>
  BY <1>1, <1>2, <1>3 DEF PlainOutputs, Commanded, Seq1
<1> QED
  BY <1>4

\* An operation on the hardware reports a value of a type that is measured, or none.
LEMMA OperationReports ==
    ASSUME NEW t \in OperationNames, NEW v \in Nat, v >= 1, flCount \in Nat, flNow \in [Types -> Nat],
           flNow["MCP4728Event"] >= 1, Operate(t, v)
    PROVE  /\ flCount' \in Nat
           /\ \/ /\ t \in {"GpioInhibitEvent", "AdcModeEvent", "MqttStatusEvent"}
                 /\ flQueue' = Tail(flQueue) \o <<>> /\ flSaid' = [flSaid EXCEPT ![t] = v]
              \/ /\ t = "PositionModeCmd" /\ flSaid' = [flSaid EXCEPT !["PositionModeConfig"] = v]
                 /\ flQueue' = Tail(flQueue) \o PlainOutputs(t, v)
              \/ /\ t # "MqttStatusEvent" /\ flSaid' = flSaid
                 /\ flQueue' \in {Tail(flQueue) \o <<>>, Tail(flQueue) \o <<Plain("GpioEvent", v)>>}
              \/ /\ t # "MqttStatusEvent"
                 /\ \E T \in MeasuredNames \cup {"EventTriggerEvent"} : \E w \in Nat : \E out :
                       /\ w >= 1 /\ flSaid' = [flSaid EXCEPT ![T] = w]
                       /\ ReportOf(out, T, w) /\ flQueue' = Tail(flQueue) \o out
<1> DEFINE D == "MCP4728Event"
           Other(T, w) == \E out : /\ flSaid' = [flSaid EXCEPT ![T] = w]
                                   /\ ReportOf(out, T, w) /\ flQueue' = Tail(flQueue) \o out
           Silent == /\ flSaid' = flSaid
                     /\ flQueue' \in {Tail(flQueue) \o <<>>, Tail(flQueue) \o <<Plain("GpioEvent", v)>>}
           Announced == \E T \in MeasuredNames \cup {"EventTriggerEvent"} : \E w \in Nat : w >= 1 /\ Other(T, w)
<1>1. /\ Works => flCount' \in Nat
      /\ Fails => flCount' \in Nat
  BY DEF Works, Fails
<1>2. Garbage \in Nat /\ Garbage >= 1
  BY EventFlowAssumption DEF Garbage
<1>3. {D, "PcaSwitchEvent", "PolaritySwitchEvent", "CfgGNSS", "UbxTimePulseStruct"} \subseteq MeasuredNames
  BY DEF MeasuredNames
<1>4. ASSUME NEW now \in Nat, now >= 1, readDac(now, <<>>) PROVE flCount' \in Nat /\ Announced
  <2>1. CASE Works /\ Reports(D, now) /\ Handled(<<>> \o <<Wrapped(D, now)>>)
    <3>1. /\ flSaid' = [flSaid EXCEPT ![D] = now] /\ flQueue' = Tail(flQueue) \o (<<>> \o <<Wrapped(D, now)>>)
          /\ ReportOf(<<>> \o <<Wrapped(D, now)>>, D, now)
      BY <2>1, ReportsAre DEF Reports, Handled
    <3> QED
      BY <1>1, <1>3, <1>4, <2>1, <3>1
  <2>2. CASE Fails /\ Misreports(D, now, Garbage) /\ Handled(<<>> \o <<Wrapped(D, Garbage)>>)
    <3>1. /\ flSaid' = [flSaid EXCEPT ![D] = Garbage] /\ flQueue' = Tail(flQueue) \o (<<>> \o <<Wrapped(D, Garbage)>>)
          /\ ReportOf(<<>> \o <<Wrapped(D, Garbage)>>, D, Garbage)
      BY <2>2, ReportsAre DEF Misreports, Handled
    <3> QED
      BY <1>1, <1>2, <1>3, <2>2, <3>1
  <2> QED
    BY <1>4, <2>1, <2>2 DEF readDac
<1> DEFINE Done == flCount' \in Nat /\ (Announced \/ Silent)
<1>5. CASE t = "ThresholdSettingCmd" /\ setDacValue(v)
  <2>1. ASSUME readDac(v, <<>>) PROVE Done
    <3>1. flCount' \in Nat /\ Announced
      BY <1>4, <2>1
    <3> HIDE DEF Announced, Silent
    <3> QED
      BY <3>1
  <2>2. ASSUME (Works /\ Conceals(D, v) /\ Handled(<<>>)) \/ (Fails /\ Handled(<<>>) /\ UNCHANGED flTruth)
        PROVE  Done
    <3>1. flCount' \in Nat /\ flSaid' = flSaid /\ flQueue' = Tail(flQueue) \o <<>>
      BY <1>1, <2>2 DEF Conceals, Handled, flTruth
    <3>2. Silent
      BY <3>1
    <3> HIDE DEF Announced, Silent
    <3> QED
      BY <3>1, <3>2
  <2>3. Done
    <3> HIDE DEF Done
    <3> QED
      BY <1>5, <2>1, <2>2 DEF setDacValue
  <2> QED
    BY <1>5, <2>3
<1>6. CASE t = "BiasVoltageCmd" /\ setBiasVoltage(v)
  <2>1. PICK now \in {v, flNow[D]} : readDac(now, <<>>)
    BY <1>6 DEF setBiasVoltage
  <2>2. now \in Nat /\ now >= 1
    BY <1>3, TypesAre
  <2>3. Done
    BY <1>4, <2>1, <2>2
  <2> QED
    BY <1>6, <2>3
<1>7. CASE t = "PcaSwitchCmd" /\ setOutputState(v)
  <2> DEFINE T == "PcaSwitchEvent"
             out == <<Wrapped(T, v), Plain("LogParameter", v)>>
  <2>1. flSaid' = [flSaid EXCEPT ![T] = v] /\ flQueue' = Tail(flQueue) \o out /\ ReportOf(out, T, v) /\ flCount' \in Nat
    BY <1>1, <1>7, ReportsAre DEF setOutputState, Reports, Misreports, Handled
  <2> QED
    BY <1>3, <1>7, <2>1
<1>8. CASE t = "EventTriggerCmd" /\ setEventTrigger(v)
  <2> DEFINE T == "EventTriggerEvent"
             out == <<Wrapped(T, v)>>
  <2>1. flSaid' = [flSaid EXCEPT ![T] = v] /\ flQueue' = Tail(flQueue) \o out /\ ReportOf(out, T, v) /\ flCount' \in Nat
    BY <1>1, <1>8, ReportsAre DEF setEventTrigger, Reports, Handled
  <2> QED
    BY <1>8, <2>1
<1>9. CASE t \in DOMAIN ReceiverCommands /\ configureReceiver(t, v)
  <2> DEFINE T == ReceiverCommands[t]
             out == <<Wrapped(T, v)>>
  <2>1. T \in MeasuredNames /\ t # "MqttStatusEvent"
    BY <1>3, <1>9, ReceiversAre DEF ReceiverCommands
  <2>2. CASE Works /\ Reports(T, v) /\ Handled(out)
    <3>1. flSaid' = [flSaid EXCEPT ![T] = v] /\ flQueue' = Tail(flQueue) \o out /\ ReportOf(out, T, v) /\ flCount' \in Nat
      BY <1>1, <2>2, ReportsAre DEF Reports, Handled
    <3> HIDE DEF T
    <3> QED
      BY <2>1, <3>1
  <2>3. CASE Fails /\ Handled(<<>>) /\ (UNCHANGED flTruth \/ Conceals(T, v))
    BY <1>1, <2>1, <2>3 DEF Conceals, Handled, flTruth
  <2> QED
    BY <1>9, <2>2, <2>3 DEF configureReceiver
<1>10. CASE t = "PolaritySwitchCmd" /\ switchPolarity(v)
  <2> DEFINE T == "PolaritySwitchEvent"
             out == <<Plain("GpioEvent", v), Plain("GpioEvent", v), Wrapped(T, v)>>
  <2>1. CASE Works /\ Reports(T, v) /\ Handled(out)
    <3>1. flSaid' = [flSaid EXCEPT ![T] = v] /\ flQueue' = Tail(flQueue) \o out /\ ReportOf(out, T, v) /\ flCount' \in Nat
      BY <1>1, <2>1, ReportsAre DEF Reports, Handled
    <3> QED
      BY <1>3, <1>10, <3>1
  <2>2. CASE \/ Fails /\ Handled(<<>>) /\ UNCHANGED flTruth
             \/ Fails /\ Handled(<<Plain("GpioEvent", v)>>) /\ Conceals(T, Garbage)
    BY <1>1, <1>10, <2>2 DEF Conceals, Handled, flTruth
  <2> QED
    BY <1>10, <2>1, <2>2 DEF switchPolarity
<1>11. CASE t \in {"GpioInhibitEvent", "AdcModeEvent", "MqttStatusEvent"} /\ Works /\ Reports(t, v)
            /\ Handled(PlainOutputs(t, v))
  BY <1>1, <1>11, QuietOperations DEF Reports, Handled
<1>12. CASE t = "PositionModeCmd" /\ set_mode_config(v)
  BY <1>1, <1>12 DEF set_mode_config, Handled
<1> QED
  BY <1>5, <1>6, <1>7, <1>8, <1>9, <1>10, <1>11, <1>12, Zenon DEF Operate

\* An operation on the hardware: what is reported is stored.
LEMMA OperationDelivers ==
    ASSUME FlTypeOK, ValuesAreKnown, flNow \in [Types -> Nat], flNow["MCP4728Event"] >= 1,
           flQueue # <<>>, Head(flQueue).kind = "plain", Head(flQueue).type \in OperationNames,
           Sent(Head(flQueue).type, Head(flQueue).value), UNCHANGED flClient,
           flStore' = IF Head(flQueue).type = "MqttStatusEvent" THEN [flStore EXCEPT ![Head(flQueue).type] = Head(flQueue).value]
                      ELSE flStore,
           Operate(Head(flQueue).type, Head(flQueue).value)
    PROVE  \E out : Delivers(Head(flQueue), out)
<1> DEFINE e == Head(flQueue)
           t == e.type
           v == e.value
           S == Outs(e, flStore', flSaid')
           M == "MqttStatusEvent"
           D == "MCP4728Event"
<1>1. /\ FlowTyped(flStore, flTold, flSaid) /\ e \in FlEvents /\ v >= 1 /\ v \in Nat
      /\ flSaid[D] >= 1 /\ flCount \in Nat
  BY HeadIs DEF FlEvents, FlTypeOK
<1>2. /\ \A x \in MeasuredNames \cup OfDac : e \notin ToTell(x)
      /\ \A x : e \notin ToStore(x) /\ e \notin Asks(x)
      /\ e \in ToTell(M) <=> t = M
      /\ ~IsConnect(e)
  BY <1>1, NamesAre DEF ToTell, ToStore, Asks, IsConnect, OperationNames, MeasuredNames, OfDac, RequestNames
<1>3. /\ \A x \in MeasuredNames \cup OfDac : flTold'[x] = flTold[x] /\ flStore'[x] = flStore[x]
      /\ flTold'[M] = IF flClient /\ t = M THEN v ELSE flTold[M]
      /\ flStore'[M] = IF t = M THEN v ELSE flStore[M]
      /\ flStore' \in [Types -> Nat] /\ flTold' \in [Types -> Nat]
  <2>1. M \in SentTypes /\ M \in Types /\ t \notin MeasuredNames \cup OfDac
    BY SentAre, TypesAre DEF OperationNames, MeasuredNames, OfDac
  <2>2. flStore \in [Types -> Nat] /\ flTold \in [Types -> Nat] /\ MeasuredNames \cup OfDac \subseteq Types
    BY <1>1, TypesAre DEF FlowTyped
  <2>3. \A T : \A f \in [T -> Nat] : \A k \in T : \A n \in Nat :
            /\ [f EXCEPT ![k] = n] \in [T -> Nat] /\ [f EXCEPT ![k] = n][k] = n
            /\ \A x \in T : x # k => [f EXCEPT ![k] = n][x] = f[x]
    OBVIOUS
  <2>4. CASE t # M
    <3>1. t \in SentTypes => t \in Types
      BY TypesAre
    <3> QED
      BY <1>1, <2>1, <2>2, <2>3, <2>4, <3>1 DEF Sent
  <2>5. CASE t = M
    <3>1. flStore' = [flStore EXCEPT ![M] = v]
      BY <2>5
    <3>2. flTold' = IF flClient THEN [flTold EXCEPT ![M] = v] ELSE flTold
      BY <2>1, <2>5 DEF Sent
    <3>3. /\ flStore' \in [Types -> Nat] /\ flStore'[M] = v
          /\ \A x \in Types : x # M => flStore'[x] = flStore[x]
      BY <1>1, <2>1, <2>2, <2>3, <3>1
    <3>4. /\ flTold' \in [Types -> Nat] /\ flTold'[M] = IF flClient THEN v ELSE flTold[M]
          /\ \A x \in Types : x # M => flTold'[x] = flTold[x]
      BY <1>1, <2>1, <2>2, <2>3, <3>2
    <3> QED
      BY <2>1, <2>2, <2>5, <3>3, <3>4
  <2> QED
    BY <2>4, <2>5
<1>4. ASSUME NEW out \in Seq(S), flQueue' = Tail(flQueue) \o out, flCount' \in Nat,
             flSaid' \in [Types -> Nat],
             \A x \in MeasuredNames : flSaid'[x] = flSaid[x] \/ ~NoneOf(out, ToStore(x)),
             flSaid'[M] = (IF t = M THEN v ELSE flSaid[M]), flSaid'[D] >= 1
      PROVE  \E o : Delivers(Head(flQueue), o)
  <2>1. FlowTyped(flStore', flTold', flSaid')
    BY <1>3, <1>4 DEF FlowTyped
  <2>2. Delivers(e, out)
    <3>1. flQueue' = Tail(flQueue) \o out /\ out \in Seq(Outs(e, flStore', flSaid')) /\ flCount' \in Nat
          /\ flClient' = flClient
      BY <1>4
    <3>2. \A x \in MeasuredNames :
            /\ IF e \in ToStore(x) THEN flStore'[x] = e.value /\ ~NoneOf(out, ToTell(x)) ELSE flStore'[x] = flStore[x]
            /\ flSaid'[x] = flSaid[x] \/ ~NoneOf(out, ToStore(x))
            /\ e \in Asks(x) /\ flStore[x] # 0 => ~NoneOf(out, ToTell(x) \cup Asks(x))
      BY <1>2, <1>3, <1>4, Zenon
    <3>3. \A x \in MeasuredNames \cup OfDac \cup {M} :
            flTold'[x] = IF flClient /\ e \in ToTell(x) THEN e.value ELSE flTold[x]
      <4> TAKE x \in MeasuredNames \cup OfDac \cup {M}
      <4>1. CASE x = M
        BY <1>2, <1>3, <4>1
      <4>2. CASE x # M
        BY <1>2, <1>3, <4>2
      <4> QED
        BY <4>1, <4>2
    <3>4. e \notin ToTell(D) /\ e \notin Asks(D) /\ ~IsConnect(e)
      BY <1>2 DEF MeasuredNames
    <3>5. IF e \in ToTell(M) THEN flStore'[M] = e.value /\ flSaid'[M] = e.value
          ELSE flStore'[M] = flStore[M] /\ flSaid'[M] = flSaid[M]
      BY <1>2, <1>3, <1>4
    <3> QED
      BY <1>4, <2>1, <3>1, <3>2, <3>3, <3>4, <3>5, Zenon DEF Delivers
  <2> QED
    BY <2>2
<1>5. D \in MeasuredNames /\ M \notin MeasuredNames
  BY DEF MeasuredNames
<1>6. flCount' \in Nat
  BY <1>1, OperationReports
<1>7. CASE /\ t # M /\ flSaid' = flSaid
           /\ flQueue' \in {Tail(flQueue) \o <<>>, Tail(flQueue) \o <<Plain("GpioEvent", v)>>}
  <2>1. Plain("GpioEvent", v) \in S
    BY <1>1, NeutralNames, NeutralOut
  <2> HIDE DEF S
  <2>2. <<>> \in Seq(S) /\ <<Plain("GpioEvent", v)>> \in Seq(S)
    BY <2>1
  <2>3. PICK out \in Seq(S) : flQueue' = Tail(flQueue) \o out
    BY <1>7, <2>2
  <2> QED
    BY <1>1, <1>4, <1>6, <1>7, <2>3 DEF FlowTyped
<1>8. ASSUME NEW T \in MeasuredNames \cup {"EventTriggerEvent"}, NEW w \in Nat, NEW out, w >= 1,
             flSaid' = [flSaid EXCEPT ![T] = w], ReportOf(out, T, w), flQueue' = Tail(flQueue) \o out, t # M
      PROVE  \E o : Delivers(Head(flQueue), o)
  <2>1. T \in Types /\ T # M /\ MeasuredNames \cup {M} \subseteq Types
    BY TypesAre DEF MeasuredNames
  <2>2. flSaid' \in [Types -> Nat] /\ flSaid'[T] = w /\ \A x \in Types : x # T => flSaid'[x] = flSaid[x]
    BY <1>1, <1>8, <2>1, SaidChanges
  <2>3. out \in Seq(S) /\ ~NoneOf(out, ToStore(T))
    BY <1>8, <2>2, ReportOut
  <2> HIDE DEF S
  <2>4. /\ \A x \in MeasuredNames : flSaid'[x] = flSaid[x] \/ ~NoneOf(out, ToStore(x))
        /\ flSaid'[M] = flSaid[M] /\ flSaid'[D] >= 1
    BY <1>1, <1>5, <1>8, <2>1, <2>2, <2>3
  <2> QED
    BY <1>4, <1>6, <1>8, <2>2, <2>3, <2>4
<1>9. CASE /\ t \in {"GpioInhibitEvent", "AdcModeEvent", M} /\ flQueue' = Tail(flQueue) \o <<>>
           /\ flSaid' = [flSaid EXCEPT ![t] = v]
  <2>1. t \in Types /\ t \notin MeasuredNames /\ MeasuredNames \cup {M} \subseteq Types
    BY <1>9, TypesAre DEF MeasuredNames
  <2>2. flSaid' \in [Types -> Nat] /\ flSaid'[t] = v /\ \A x \in Types : x # t => flSaid'[x] = flSaid[x]
    BY <1>1, <1>9, <2>1, SaidChanges
  <2>3. <<>> \in Seq(S)
    OBVIOUS
  <2>4. /\ \A x \in MeasuredNames : flSaid'[x] = flSaid[x]
        /\ flSaid'[M] = (IF t = M THEN v ELSE flSaid[M]) /\ flSaid'[D] = flSaid[D]
    BY <1>5, <2>1, <2>2
  <2> HIDE DEF S
  <2> QED
    BY <1>1, <1>4, <1>6, <1>9, <2>2, <2>3, <2>4
<1>10. CASE /\ t = "PositionModeCmd" /\ flSaid' = [flSaid EXCEPT !["PositionModeConfig"] = v]
            /\ flQueue' = Tail(flQueue) \o PlainOutputs(t, v)
  <2> DEFINE T == "PositionModeConfig"
  <2>1. T \in Types /\ T \notin MeasuredNames \cup {M} /\ MeasuredNames \cup {M} \subseteq Types
    BY TypesAre DEF MeasuredNames
  <2>2. flSaid' \in [Types -> Nat] /\ \A x \in Types : x # T => flSaid'[x] = flSaid[x]
    BY <1>1, <1>10, <2>1, SaidChanges
  <2>3. PlainOutputs(t, v) = <<Plain(T, v)>>
    <3>1. t \notin DOMAIN Requests /\ t \notin LoggedOfBoard \cup LoggedOfReceiver
      BY <1>10, NamesAre DEF RequestNames, LoggedOfBoard, LoggedOfReceiver
    <3>2. Commanded(t, v) = <<Plain(T, v)>>
      BY <1>10, NamesAre DEF Commanded, LineNames
    <3>3. PlainOutputs(t, v) = <<>> \o <<>> \o <<>> \o <<Plain(T, v)>>
      BY <1>10, <3>1, <3>2 DEF PlainOutputs, Commanded, Seq1
    <3> QED
      BY <3>3
  <2>4. Plain(T, v) \in S
    BY <1>1, NeutralNames, NeutralOut
  <2> HIDE DEF S
  <2>5. <<Plain(T, v)>> \in Seq(S)
    BY <2>4
  <2>6. /\ \A x \in MeasuredNames : flSaid'[x] = flSaid[x]
        /\ flSaid'[M] = flSaid[M] /\ flSaid'[D] = flSaid[D] /\ t # M
    BY <1>5, <1>10, <2>1, <2>2
  <2> QED
    BY <1>1, <1>4, <1>6, <1>10, <2>2, <2>3, <2>5, <2>6
<1>11. \/ /\ t \in {"GpioInhibitEvent", "AdcModeEvent", M} /\ flQueue' = Tail(flQueue) \o <<>>
          /\ flSaid' = [flSaid EXCEPT ![t] = v]
       \/ /\ t = "PositionModeCmd" /\ flSaid' = [flSaid EXCEPT !["PositionModeConfig"] = v]
          /\ flQueue' = Tail(flQueue) \o PlainOutputs(t, v)
       \/ /\ t # M /\ flSaid' = flSaid
          /\ flQueue' \in {Tail(flQueue) \o <<>>, Tail(flQueue) \o <<Plain("GpioEvent", v)>>}
       \/ /\ t # M
          /\ \E T \in MeasuredNames \cup {"EventTriggerEvent"} : \E w \in Nat : \E out :
                /\ w >= 1 /\ flSaid' = [flSaid EXCEPT ![T] = w]
                /\ ReportOf(out, T, w) /\ flQueue' = Tail(flQueue) \o out
  BY <1>1, OperationReports
<1> QED
  BY <1>7, <1>8, <1>9, <1>10, <1>11

\* What the drivers, the store and the TCP sink do with a plain event.
LEMMA PlainDelivers ==
    ASSUME FlTypeOK, ValuesAreKnown, TruthIs, DeliverPlain
    PROVE  \E out : Delivers(Head(flQueue), out)
<1> DEFINE e == Head(flQueue)
           t == e.type
           v == e.value
           D == "MCP4728Event"
           M == "MqttStatusEvent"
           main == PlainOutputs(t, v)
           S == Outs(e, flStore, flSaid')
<1>1. /\ flQueue # <<>> /\ e.kind = "plain" /\ Sent(t, v) /\ UNCHANGED flClient
      /\ flStore' = IF t = M THEN [flStore EXCEPT ![t] = v] ELSE flStore
  BY DEF DeliverPlain
<1>2. /\ Built /\ FlowTyped(flStore, flTold, flSaid) /\ e \in FlEvents /\ v \in Nat /\ flCount \in Nat
      /\ e.type \in LineNames => e.value >= 1
      /\ flSaid[D] >= 1 /\ flNow \in [Types -> Nat] /\ flNow[D] >= 1 /\ flNow["AdcModeEvent"] >= 1
  BY <1>1, HeadIs DEF FlEvents, TruthIs, FlTypeOK
<1>3. CASE t \in Operations /\ Operate(t, v)
  BY <1>1, <1>2, <1>3, NamesAre, OperationDelivers
<1>4. ASSUME t \notin Operations, NEW rest \in Seq(S), flQueue' = Tail(flQueue) \o (main \o rest), flCount' \in Nat,
             flSaid' \in [Types -> Nat], flSaid'[D] >= 1, \A x \in (MeasuredNames \cup {M}) \ {D} : flSaid'[x] = flSaid[x],
             flSaid'[D] = flSaid[D] \/ ~NoneOf(rest, ToStore(D)),
             t = "DacSettingRequestCmd" => ~NoneOf(rest, ToStore(D))
      PROVE  \E out : Delivers(Head(flQueue), out)
  <2> DEFINE out == main \o rest
  <2>1. t # M /\ flStore' = flStore
    BY <1>1, <1>4, NamesAre DEF OperationNames
  <2>2. /\ main \in Seq(S)
        /\ \A x \in MeasuredNames : e \in Asks(x) /\ flStore[x] # 0 => ~NoneOf(main, ToTell(x) \cup Asks(x))
        /\ e \in Asks(D) => t = "DacSettingRequestCmd" \/ ~NoneOf(main, Asks(D))
        /\ e \in ToTell(D) => \A x \in OfDac : ~NoneOf(main, ToTell(x))
        /\ IsConnect(e) /\ flStore[M] # 0 => ~NoneOf(main, ToTell(M))
    BY <1>1, <1>2, PlainOut
  <2> HIDE DEF main, S
  <2>3. out \in Seq(S) /\ \A kind : NoneOf(out, kind) => NoneOf(main, kind) /\ NoneOf(rest, kind)
    BY <1>4, <2>2, JoinedIsQueue, JoinedQueue
  <2>4. /\ \A x \in MeasuredNames \cup OfDac \cup {M} :
              flTold'[x] = IF flClient /\ e \in ToTell(x) THEN v ELSE flTold[x]
        /\ flTold' \in [Types -> Nat]
    <3>1. MeasuredNames \cup OfDac \cup {M} \subseteq SentTypes \cap Types
      BY SentAre, TypesAre
    <3>2. \A x : e \in ToTell(x) <=> t = x
      BY <1>1, <1>2 DEF ToTell
    <3> QED
      BY <1>1, <1>2, <3>1, <3>2 DEF Sent, FlowTyped
  <2>5. \A x : e \notin ToStore(x)
    BY <1>1 DEF ToStore
  <2>6. e \notin ToTell(M)
    BY <2>1 DEF ToTell
  <2>7. FlowTyped(flStore', flTold', flSaid')
    BY <1>2, <1>4, <2>1, <2>4 DEF FlowTyped
  <2> HIDE DEF out
  <2>8. \A x \in MeasuredNames : flSaid'[x] = flSaid[x] \/ ~NoneOf(out, ToStore(x))
    BY <1>4, <2>3
  <2>9. e \in Asks(D) => ~NoneOf(out, ToStore(D) \cup Asks(D))
    BY <1>4, <2>2, <2>3, WiderKind
  <2>10. flQueue' = Tail(flQueue) \o out
    BY <1>4 DEF out
  <2>11. Delivers(e, out)
    BY <1>1, <1>4, <2>1, <2>2, <2>3, <2>4, <2>5, <2>6, <2>7, <2>8, <2>9, <2>10 DEF Delivers, S
  <2> QED
    BY <2>11
<1>5. D \in MeasuredNames /\ M # D /\ MeasuredNames \cup {M} \subseteq Types
  BY TypesAre DEF MeasuredNames
<1>7. ASSUME t \notin Operations, NEW w \in Nat, w >= 1, flSaid' = [flSaid EXCEPT ![D] = w],
             Handled(main \o <<Wrapped(D, w)>>), flCount' \in Nat
      PROVE  \E out : Delivers(Head(flQueue), out)
  <2>1. flSaid' \in [Types -> Nat] /\ flSaid'[D] = w /\ \A x \in Types : x # D => flSaid'[x] = flSaid[x]
    BY <1>2, <1>5, <1>7, SaidChanges
  <2>2. <<Wrapped(D, w)>> \in Seq(S) /\ ~NoneOf(<<Wrapped(D, w)>>, ToStore(D))
    <3>1. ReportOf(<<Wrapped(D, w)>>, D, w)
      BY <1>2, ReportsAre
    <3> QED
      BY <1>5, <1>7, <2>1, <3>1, ReportOut
  <2>3. flQueue' = Tail(flQueue) \o (main \o <<Wrapped(D, w)>>)
    BY <1>7 DEF Handled
  <2> HIDE DEF main, S
  <2> DEFINE rest == <<Wrapped(D, w)>>
  <2> HIDE DEF rest
  <2>4. rest \in Seq(S) /\ ~NoneOf(rest, ToStore(D)) /\ flQueue' = Tail(flQueue) \o (main \o rest)
    BY <2>2, <2>3 DEF rest
  <2> QED
    BY <1>4, <1>5, <1>7, <2>1, <2>4
<1>8. CASE t \notin Operations /\ readDac(flNow[D], main)
  <2>1. flNow[D] \in Nat /\ Garbage \in Nat /\ Garbage >= 1
    BY <1>2, <1>5, EventFlowAssumption DEF Garbage
  <2>2. \/ /\ Works /\ flSaid' = [flSaid EXCEPT ![D] = flNow[D]]
           /\ Handled(main \o <<Wrapped(D, flNow[D])>>)
        \/ /\ Fails /\ flSaid' = [flSaid EXCEPT ![D] = Garbage]
           /\ Handled(main \o <<Wrapped(D, Garbage)>>)
    BY <1>8 DEF readDac, Reports, Misreports
  <2>3. flCount' \in Nat
    BY <1>2, <2>2 DEF Works, Fails
  <2> HIDE DEF main
  <2> QED
    BY <1>2, <1>7, <1>8, <2>1, <2>2, <2>3
<1>9. CASE /\ t \notin Operations \cup {"DacSettingRequestCmd"}
           /\ \E samples \in Sampled(t, v) : Handled(main \o samples)
           /\ Works /\ UNCHANGED <<flMode, flTruth>>
  <2>1. PICK samples \in Sampled(t, v) : flQueue' = Tail(flQueue) \o (main \o samples)
    BY <1>9 DEF Handled
  <2>2. flSaid' = flSaid /\ flCount' \in Nat
    BY <1>2, <1>9 DEF Works, flTruth
  <2>3. Plain("ADS1115Event", v) \in S /\ Plain("AdcTraceEvent", v) \in S
    BY <1>2, NeutralNames, NeutralOut
  <2>4. samples \in {<<>>, <<Plain("ADS1115Event", v)>>, <<Plain("AdcTraceEvent", v)>>}
    BY DEF Sampled
  <2> HIDE DEF S, main
  <2>5. \A x \in S : <<x>> \in Seq(S) /\ <<>> \in Seq(S)
    OBVIOUS
  <2>6. samples \in Seq(S)
    BY <2>3, <2>4, <2>5, Zenon
  <2> QED
    BY <1>2, <1>4, <1>5, <1>9, <2>1, <2>2, <2>6 DEF FlowTyped
<1>10. "DacSettingRequestCmd" \notin Operations
  BY NamesAre DEF OperationNames
<1> QED
  BY <1>3, <1>8, <1>9, <1>10 DEF DeliverPlain

\* A value changes, is reported or kept back: what is reported is so, or the driver misleads.
LEMMA TruthMoves ==
    ASSUME TruthIs, Built, flSaid \in [Types -> Nat], NEW t \in Types, NEW w \in Nat, NEW said \in Nat,
           t \in {"MCP4728Event", "AdcModeEvent"} => w >= 1,
           Reports(t, w) \/ Misreports(t, w, said) \/ Conceals(t, w)
    PROVE  TruthIs'
<1> DEFINE Others == Types \ {"PositionModeConfig", "GnssPosStruct"}
<1>1. /\ flNow \in [Types -> Nat] /\ flNow["MCP4728Event"] >= 1 /\ flNow["AdcModeEvent"] >= 1
      /\ \A x \in Others : x \in flMisled \/ flSaid[x] = flNow[x]
  BY DEF TruthIs
<1>2. \A T : \A f \in [T -> Nat] : \A k \in T : \A n \in Nat :
          /\ [f EXCEPT ![k] = n] \in [T -> Nat] /\ [f EXCEPT ![k] = n][k] = n
          /\ \A x \in T : x # k => [f EXCEPT ![k] = n][x] = f[x]
  OBVIOUS
<1>3. flNow' = [flNow EXCEPT ![t] = w]
  BY DEF Reports, Misreports, Conceals
<1>4. flNow' \in [Types -> Nat] /\ flNow'[t] = w /\ \A x \in Types : x # t => flNow'[x] = flNow[x]
  BY <1>1, <1>2, <1>3
<1>5. {"MCP4728Event", "AdcModeEvent"} \subseteq Types
  BY TypesAre DEF MeasuredNames
<1>6. /\ flNow'["MCP4728Event"] >= 1 /\ flNow'["AdcModeEvent"] >= 1
  BY <1>1, <1>4, <1>5
<1>7. \A x \in Types : x # t => flSaid'[x] = flSaid[x] /\ (x \in flMisled => x \in flMisled')
  <2>1. \E n \in Nat : flSaid' = [flSaid EXCEPT ![t] = n] \/ flSaid' = flSaid
    BY DEF Reports, Misreports, Conceals
  <2>2. flMisled' \in {flMisled \ {t}, flMisled \cup {t}}
    BY DEF Reports, Misreports, Conceals
  <2> QED
    BY <1>2, <2>1, <2>2
<1>8. t \in flMisled' \/ flSaid'[t] = flNow'[t]
  <2>1. Reports(t, w) => flSaid' = [flSaid EXCEPT ![t] = w]
    BY DEF Reports
  <2>2. Misreports(t, w, said) \/ Conceals(t, w) => t \in flMisled'
    BY DEF Misreports, Conceals
  <2> QED
    BY <1>2, <1>4, <2>1, <2>2
<1>9. ASSUME NEW x \in Others PROVE x \in flMisled' \/ flSaid'[x] = flNow'[x]
  BY <1>1, <1>4, <1>7, <1>8
<1> QED
  BY <1>4, <1>6, <1>9 DEF TruthIs

\* The truth is left alone.
LEMMA TruthStays == TruthIs /\ Built /\ UNCHANGED flTruth => TruthIs'
BY DEF TruthIs, flTruth

\* A delivery leaves what is reported so, or misleads.
LEMMA DeliveryIsTrue ==
    ASSUME FlTypeOK, ValuesAreKnown, TruthIs, Deliver
    PROVE  TruthIs'
<1> DEFINE e == Head(flQueue)
           t == e.type
           v == e.value
           D == "MCP4728Event"
           Affects(T, w) == \E said \in Nat : Reports(T, w) \/ Misreports(T, w, said) \/ Conceals(T, w)
<1>1. /\ flQueue # <<>> /\ Built /\ flSaid \in [Types -> Nat] /\ v \in Nat
      /\ e.kind = "signal" => t \in LineTypes
      /\ t \in OperationNames => v >= 1
      /\ flNow \in [Types -> Nat] /\ flNow[D] \in Nat /\ flNow[D] >= 1
  <2>1. flQueue # <<>>
    BY DEF Deliver, DeliverWrapped, DeliverSignal, DeliverPlain
  <2>2. D \in Types
    BY TypesAre DEF MeasuredNames
  <2> QED
    BY <2>1, <2>2, HeadIs DEF TruthIs, FlTypeOK, FlEvents
<1>2. Garbage \in Nat
  BY EventFlowAssumption DEF Garbage
<1>3. ASSUME NEW T \in Types, NEW w \in Nat, T \in {D, "AdcModeEvent"} => w >= 1, Affects(T, w) PROVE TruthIs'
  <2>1. PICK said \in Nat : Reports(T, w) \/ Misreports(T, w, said) \/ Conceals(T, w)
    BY <1>3
  <2> QED
    BY <1>1, <1>3, <2>1, TruthMoves
<1>4. ASSUME NEW now \in Nat, now >= 1, NEW out, readDac(now, out) PROVE TruthIs'
  <2>1. D \in Types
    BY TypesAre DEF MeasuredNames
  <2>2. Affects(D, now)
    BY <1>2, <1>4 DEF readDac
  <2> HIDE DEF Affects
  <2> QED
    BY <1>3, <1>4, <2>1, <2>2
<1>5. CASE DeliverWrapped
  BY <1>1, <1>5, TruthStays DEF DeliverWrapped
<1>6. CASE DeliverSignal
  <2>1. e.kind = "signal" /\ (Reports(t, v) \/ UNCHANGED flTruth)
    BY <1>6 DEF DeliverSignal
  <2>2. t \in Types /\ t \notin {D, "AdcModeEvent"}
    BY <1>1, <2>1, TypesAre DEF LineTypes, MeasuredNames
  <2>3. CASE Reports(t, v)
    <3>1. Affects(t, v)
      BY <1>1, <2>3
    <3> HIDE DEF Affects
    <3> QED
      BY <1>1, <1>3, <2>2, <3>1
  <2>4. CASE UNCHANGED flTruth
    BY <1>1, <2>4, TruthStays
  <2> QED
    BY <2>1, <2>3, <2>4
<1>7. CASE DeliverPlain
  <2>1. \/ t \in Operations /\ Operate(t, v)
        \/ readDac(flNow[D], PlainOutputs(t, v))
        \/ UNCHANGED flTruth
    BY <1>7 DEF DeliverPlain
  <2>2. CASE t \in Operations /\ Operate(t, v)
    <3>1. t \in OperationNames /\ v >= 1
      BY <1>1, <2>2, NamesAre
    <3>2. {D, "PcaSwitchEvent", "EventTriggerEvent", "PolaritySwitchEvent", "CfgGNSS", "UbxTimePulseStruct",
           "GpioInhibitEvent", "AdcModeEvent", "MqttStatusEvent"} \subseteq Types
      BY TypesAre DEF MeasuredNames
    <3>3. CASE setDacValue(v)
      <4>1. CASE readDac(v, <<>>)
        BY <1>1, <1>4, <3>1, <4>1
      <4>2. CASE Conceals(D, v)
        <5>1. Affects(D, v)
          BY <1>1, <4>2
        <5> HIDE DEF Affects
        <5> QED
          BY <1>1, <1>3, <3>1, <3>2, <5>1
      <4>3. CASE UNCHANGED flTruth
        BY <1>1, <4>3, TruthStays
      <4> QED
        BY <3>3, <4>1, <4>2, <4>3 DEF setDacValue
    <3>4. CASE setBiasVoltage(v)
      <4>1. PICK now \in {v, flNow[D]} : readDac(now, <<>>)
        BY <3>4 DEF setBiasVoltage
      <4> QED
        BY <1>1, <1>4, <3>1, <4>1
    <3>5. CASE setOutputState(v)
      <4>1. flNow["PcaSwitchEvent"] \in Nat
        BY <1>1, <3>2
      <4>2. Affects("PcaSwitchEvent", v) \/ Affects("PcaSwitchEvent", flNow["PcaSwitchEvent"])
        BY <1>1, <3>5 DEF setOutputState
      <4> HIDE DEF Affects
      <4> QED
        BY <1>1, <1>3, <3>2, <4>1, <4>2
    <3>6. CASE setEventTrigger(v)
      <4>1. Affects("EventTriggerEvent", v)
        BY <1>1, <3>6 DEF setEventTrigger
      <4> HIDE DEF Affects
      <4> QED
        BY <1>1, <1>3, <3>2, <4>1
    <3>7. CASE t \in DOMAIN ReceiverCommands /\ configureReceiver(t, v)
      <4>1. ReceiverCommands[t] \in {"CfgGNSS", "UbxTimePulseStruct"}
        BY <3>7, ReceiversAre
      <4>2. CASE UNCHANGED flTruth
        BY <1>1, <4>2, TruthStays
      <4>3. CASE ~UNCHANGED flTruth
        <5>1. Affects(ReceiverCommands[t], v)
          BY <1>1, <3>7, <4>3 DEF configureReceiver
        <5> HIDE DEF Affects
        <5> QED
          BY <1>1, <1>3, <3>2, <4>1, <5>1
      <4> QED
        BY <4>2, <4>3
    <3>8. CASE switchPolarity(v)
      <4>1. CASE UNCHANGED flTruth
        BY <1>1, <4>1, TruthStays
      <4>2. CASE ~UNCHANGED flTruth
        <5>1. Affects("PolaritySwitchEvent", v) \/ Affects("PolaritySwitchEvent", Garbage)
          BY <1>1, <3>8, <4>2 DEF switchPolarity
        <5> HIDE DEF Affects
        <5> QED
          BY <1>1, <1>2, <1>3, <3>2, <5>1
      <4> QED
        BY <4>1, <4>2
    <3>9. CASE t \in {"GpioInhibitEvent", "AdcModeEvent", "MqttStatusEvent"} /\ Reports(t, v)
      <4>1. Affects(t, v)
        BY <1>1, <3>9
      <4> HIDE DEF Affects
      <4> QED
        BY <1>1, <1>3, <3>1, <3>2, <3>9, <4>1
    <3>10. CASE set_mode_config(v)
      <4> DEFINE P == {"PositionModeConfig", "GnssPosStruct"}
      <4>1. P \subseteq Types /\ P \cap {D, "AdcModeEvent"} = {} /\ {D, "AdcModeEvent"} \subseteq Types
        BY TypesAre, <3>2
      <4>2. PICK n \in {v, flNow["GnssPosStruct"]} :
               flNow' = [flNow EXCEPT !["PositionModeConfig"] = v, !["GnssPosStruct"] = n]
        <5>1. CASE flMode' = "Static"
          BY <3>10, <5>1 DEF set_mode_config
        <5>2. CASE flMode' # "Static"
          <6>1. flNow' = [flNow EXCEPT !["PositionModeConfig"] = v,
                                       !["GnssPosStruct"] = [flNow EXCEPT !["PositionModeConfig"] = v]["GnssPosStruct"]]
            BY <3>10, <5>2 DEF set_mode_config
          <6>2. [flNow EXCEPT !["PositionModeConfig"] = v]["GnssPosStruct"] = flNow["GnssPosStruct"]
            BY <1>1, <4>1
          <6> QED
            BY <6>1, <6>2
        <5> QED
          BY <5>1, <5>2
      <4>3. n \in Nat
        BY <1>1, <4>1
      <4>4. flNow' \in [Types -> Nat] /\ \A x \in Types \ P : flNow'[x] = flNow[x]
        BY <1>1, <4>1, <4>2, <4>3
      <4>5. flSaid' = [flSaid EXCEPT !["PositionModeConfig"] = v] /\ flMisled' = flMisled
        BY <3>10 DEF set_mode_config
      <4>6. \A x \in Types \ P : flSaid'[x] = flSaid[x]
        BY <1>1, <4>1, <4>5
      <4> QED
        BY <1>1, <4>1, <4>4, <4>5, <4>6 DEF TruthIs
    <3> QED
      BY <2>2, <3>3, <3>4, <3>5, <3>6, <3>7, <3>8, <3>9, <3>10 DEF Operate
  <2>3. CASE readDac(flNow[D], PlainOutputs(t, v))
    BY <1>1, <1>4, <2>3
  <2>4. CASE UNCHANGED flTruth
    BY <1>1, <2>4, TruthStays
  <2> QED
    BY <2>1, <2>2, <2>3, <2>4
<1> QED
  BY <1>5, <1>6, <1>7 DEF Deliver

\* What a client's command becomes is never the value of a type.
LEMMA DecodedAre == DecodedTypes \cap (MeasuredNames \cup OfDac \cup {"MqttStatusEvent"}) = {}
<1> DEFINE Valued == MeasuredNames \cup OfDac \cup {"MqttStatusEvent"}
           Own == {"UbxTimePulseStruct", "PositionModeConfig"}
<1>1. \A type, key, members : Codec(type, key, members).type = type
  BY DEF Codec
<1>2. \A type, key : EMPTY_CMD_CODEC(type, key).type = type
  BY <1>1, ZenonT(40) DEF EMPTY_CMD_CODEC
<1>3. /\ UbxTimePulseStruct.type = "UbxTimePulseStruct" /\ UbxGnssConfigCmd.type = "UbxGnssConfigCmd"
      /\ UbxMsgRateCmd.type = "UbxMsgRateCmd" /\ UbxMsgPollCmd.type = "UbxMsgPollCmd"
      /\ UbxMsgRateRequestCmd.type = "UbxMsgRateRequestCmd" /\ UbxResetCmd.type = "UbxResetCmd"
      /\ UbxSaveCmd.type = "UbxSaveCmd" /\ UbxConfigDefaultCmd.type = "UbxConfigDefaultCmd"
      /\ StartBurstSampling.type = "StartBurstSampling" /\ MqttInhibitCmd.type = "MqttInhibitCmd"
      /\ GpioInhibitEvent.type = "GpioInhibitEvent" /\ GpioRateResetCmd.type = "GpioRateResetCmd"
      /\ I2CStatsRequestCmd.type = "I2CStatsRequestCmd" /\ I2CScanBusCmd.type = "I2CScanBusCmd"
      /\ CalibRequestCmd.type = "CalibRequestCmd" /\ CalibSaveCmd.type = "CalibSaveCmd"
  <2>1. /\ UbxGnssConfigCmd.type = "UbxGnssConfigCmd" /\ UbxMsgRateCmd.type = "UbxMsgRateCmd"
        /\ UbxMsgPollCmd.type = "UbxMsgPollCmd" /\ UbxResetCmd.type = "UbxResetCmd" /\ UbxSaveCmd.type = "UbxSaveCmd"
        /\ StartBurstSampling.type = "StartBurstSampling" /\ MqttInhibitCmd.type = "MqttInhibitCmd"
    BY <1>1, ZenonT(40) DEF UbxGnssConfigCmd, UbxMsgRateCmd, UbxMsgPollCmd, UbxResetCmd, UbxSaveCmd, StartBurstSampling,
                       MqttInhibitCmd
  <2>2. /\ UbxMsgRateRequestCmd.type = "UbxMsgRateRequestCmd" /\ UbxConfigDefaultCmd.type = "UbxConfigDefaultCmd"
        /\ GpioRateResetCmd.type = "GpioRateResetCmd" /\ I2CStatsRequestCmd.type = "I2CStatsRequestCmd"
        /\ I2CScanBusCmd.type = "I2CScanBusCmd" /\ CalibRequestCmd.type = "CalibRequestCmd"
        /\ CalibSaveCmd.type = "CalibSaveCmd"
    BY <1>2, Zenon DEF UbxMsgRateRequestCmd, UbxConfigDefaultCmd, GpioRateResetCmd, I2CStatsRequestCmd, I2CScanBusCmd,
                       CalibRequestCmd, CalibSaveCmd
  <2> QED
    BY <2>1, <2>2, CodecTypes
<1>4. /\ PreampSwitchCmd.type = "PreampSwitchCmd" /\ PreampSwitchRequestCmd.type = "PreampSwitchRequestCmd"
      /\ GainSwitchCmd.type = "GainSwitchCmd" /\ GainSwitchRequestCmd.type = "GainSwitchRequestCmd"
      /\ ThresholdSettingCmd.type = "ThresholdSettingCmd"
      /\ ThresholdSettingRequestCmd.type = "ThresholdSettingRequestCmd" /\ PcaSwitchCmd.type = "PcaSwitchCmd"
      /\ AdcModeRequestCmd.type = "AdcModeRequestCmd" /\ AdcModeEvent.type = "AdcModeEvent"
      /\ PolaritySwitchCmd.type = "PolaritySwitchCmd"
      /\ PolaritySwitchRequestCmd.type = "PolaritySwitchRequestCmd"
      /\ BiasVoltageCmd.type = "BiasVoltageCmd" /\ BiasVoltageRequestCmd.type = "BiasVoltageRequestCmd"
      /\ BiasSwitchCmd.type = "BiasSwitchCmd"
  BY <1>1, <1>2, ZenonT(40) DEF PreampSwitchCmd, PreampSwitchRequestCmd, GainSwitchCmd, GainSwitchRequestCmd,
              ThresholdSettingCmd, ThresholdSettingRequestCmd, PcaSwitchCmd, AdcModeRequestCmd, AdcModeEvent,
              PolaritySwitchCmd, PolaritySwitchRequestCmd, BiasVoltageCmd, BiasVoltageRequestCmd, BiasSwitchCmd
<1>5. /\ BiasSwitchRequestCmd.type = "BiasSwitchRequestCmd" /\ DacSettingRequestCmd.type = "DacSettingRequestCmd"
      /\ DacEepromSetCmd.type = "DacEepromSetCmd" /\ AdcSampleTriggerCmd.type = "AdcSampleTriggerCmd"
      /\ TemperatureRequestCmd.type = "TemperatureRequestCmd" /\ HistogramClearCmd.type = "HistogramClearCmd"
      /\ HistogramRequestCmd.type = "HistogramRequestCmd" /\ GpioRateRequestCmd.type = "GpioRateRequestCmd"
      /\ PositionModeConfig.type = "PositionModeConfig" /\ EventTriggerRequestCmd.type = "EventTriggerRequestCmd"
      /\ EventTriggerCmd.type = "EventTriggerCmd"
  BY <1>1, <1>2, ZenonT(40) DEF BiasSwitchRequestCmd, DacSettingRequestCmd, DacEepromSetCmd, AdcSampleTriggerCmd,
              TemperatureRequestCmd, HistogramClearCmd, HistogramRequestCmd, GpioRateRequestCmd, PositionModeConfig,
              EventTriggerRequestCmd, EventTriggerCmd
<1>6. \A k \in DOMAIN receiverCommands : receiverCommands[k] \in
        {UbxTimePulseStruct, UbxGnssConfigCmd, UbxMsgRateCmd, UbxMsgPollCmd, UbxMsgRateRequestCmd, UbxResetCmd,
         UbxSaveCmd, UbxConfigDefaultCmd, StartBurstSampling, MqttInhibitCmd, GpioInhibitEvent, GpioRateResetCmd,
         I2CStatsRequestCmd, I2CScanBusCmd, CalibRequestCmd, CalibSaveCmd}
  BY DEF receiverCommands
<1>7. \A k \in DOMAIN boardCommands : boardCommands[k] \in
        {PreampSwitchCmd, PreampSwitchRequestCmd, GainSwitchCmd, GainSwitchRequestCmd, ThresholdSettingCmd,
         ThresholdSettingRequestCmd, PcaSwitchCmd, AdcModeRequestCmd, AdcModeEvent, PolaritySwitchCmd,
         PolaritySwitchRequestCmd, BiasVoltageCmd, BiasVoltageRequestCmd, BiasSwitchCmd, BiasSwitchRequestCmd,
         DacSettingRequestCmd, DacEepromSetCmd, AdcSampleTriggerCmd, TemperatureRequestCmd, HistogramClearCmd,
         HistogramRequestCmd, GpioRateRequestCmd, PositionModeConfig, EventTriggerRequestCmd, EventTriggerCmd}
  BY DEF boardCommands
<1>8. \A k \in DOMAIN receiverCommands : receiverCommands[k].type \notin Valued \ Own
  BY <1>3, <1>6 DEF MeasuredNames, OfDac
<1>9. \A k \in DOMAIN boardCommands : boardCommands[k].type \notin Valued \ Own
  BY <1>4, <1>5, <1>7 DEF MeasuredNames, OfDac
<1>10. \A k \in DOMAIN TcpCommandDecoder : TcpCommandDecoder[k].type \notin Valued \ Own
  <2>1. \A k \in DOMAIN TcpCommandDecoder :
            \/ k \in DOMAIN receiverCommands /\ TcpCommandDecoder[k] = receiverCommands[k]
            \/ k \in DOMAIN boardCommands /\ TcpCommandDecoder[k] = boardCommands[k]
    BY DEF TcpCommandDecoder, ++
  <2> HIDE DEF Valued, Own
  <2> QED
    BY <1>8, <1>9, <2>1, Zenon
<1> HIDE DEF Valued
<1>11. \A n \in DecodedTypes : n \in {"UbxTp5Cmd", "PositionModeCmd"} \/ n \notin Valued
  <2>1. \A n \in DecodedTypes : n \in {"UbxTp5Cmd", "PositionModeCmd"}
                                 \/ \E k \in DOMAIN TcpCommandDecoder : n = TcpCommandDecoder[k].type /\ n \notin Own
    BY Zenon DEF DecodedTypes
  <2> QED
    BY <1>10, <2>1, Zenon
<1>12. "UbxTp5Cmd" \notin Valued /\ "PositionModeCmd" \notin Valued
  BY DEF Valued, MeasuredNames, OfDac
<1> QED
  BY <1>11, <1>12 DEF Valued

\* When all that are of a kind are good ones, there is none or the last one is good.
LEMMA GoodOnes ==
    ASSUME NEW M, NEW q \in Seq(M), NEW kind, NEW good, \A x \in M : x \in kind => x \in good
    PROVE  NoneOf(q, kind) \/ LastIs(q, kind, good)
<1> SUFFICES ASSUME ~NoneOf(q, kind) PROVE LastIs(q, kind, good)
  OBVIOUS
<1>1. Len(q) \in Nat /\ \A p \in 1..Len(q) : q[p] \in M
  OBVIOUS
<1> DEFINE T == {n \in Nat : n < Len(q) /\ q[Len(q) - n] \in kind}
<1>2. PICK p \in 1..Len(q) : q[p] \in kind
  BY DEF NoneOf
<1>3. Len(q) - p \in T /\ T \subseteq Nat
  <2>1. Len(q) - p \in Nat /\ Len(q) - p < Len(q) /\ Len(q) - (Len(q) - p) = p
    BY <1>1
  <2> QED
    BY <1>2, <2>1
<1>4. PICK n \in T : \A m \in T : n <= m
  BY <1>3, LeastNumber
<1> DEFINE last == Len(q) - n
<1>5. last \in 1..Len(q) /\ q[last] \in good
  BY <1>1, <1>4
<1>6. ASSUME NEW r \in (last + 1)..Len(q) PROVE q[r] \notin kind
  <2>1. Len(q) - r \in Nat /\ Len(q) - r < n /\ Len(q) - (Len(q) - r) = r /\ Len(q) - r < Len(q)
    BY <1>1, <1>4, <1>5
  <2>2. Len(q) - r \notin T
    BY <1>1, <1>4, <2>1
  <2> QED
    BY <2>1, <2>2
<1> QED
  BY <1>5, <1>6 DEF LastIs

\* What was settled stays so when the oldest event is delivered and only good ones are added.
LEMMA StillSettles ==
    ASSUME NEW M, NEW q \in Seq(M), q # <<>>, NEW out \in Seq(M), NEW kind, NEW good, NEW x, NEW y, NEW v,
           NoneOf(out, kind) \/ LastIs(out, kind, good), Settles(q, kind, good, x = v),
           Head(q) \notin kind => y = x, Head(q) \in good => y = v
    PROVE  Settles(Tail(q) \o out, kind, good, y = v)
<1>1. Tail(q) \in Seq(M)
  OBVIOUS
<1>2. CASE LastIs(out, kind, good)
  BY <1>1, <1>2, JoinedQueue DEF Settles
<1>3. CASE NoneOf(out, kind)
  <2>1. CASE x = v /\ NoneOf(q, kind)
    <3>1. Head(q) \notin kind /\ NoneOf(Tail(q), kind)
      BY <2>1, ShorterQueue
    <3> QED
      BY <1>1, <1>3, <2>1, <3>1, JoinedQueue DEF Settles
  <2>2. CASE LastIs(q, kind, good)
    <3>1. LastIs(Tail(q), kind, good) \/ (Head(q) \in good /\ NoneOf(Tail(q), kind))
      BY <2>2, ShorterQueue
    <3> QED
      BY <1>1, <1>3, <3>1, JoinedQueue DEF Settles
  <2> QED
    BY <2>1, <2>2 DEF Settles
<1> QED
  BY <1>2, <1>3

\* Where none of a kind is, the last one is not a good one.
LEMMA GoodIsOfKind == \A q, kind, good : good \subseteq kind /\ NoneOf(q, kind) => ~LastIs(q, kind, good)
BY DEF NoneOf, LastIs

\* Of what the handlers publish, what is about a type has the value of the store or of the hardware.
LEMMA OutIs ==
    ASSUME NEW e, NEW store, NEW now, NEW out \in Seq(Outs(e, store, now))
    PROVE  /\ out \in Seq(FlEvents)
           /\ \A t \in MeasuredNames :
                 /\ NoneOf(out, ToStore(t)) \/ LastIs(out, ToStore(t), {Wrapped(t, now[t])})
                 /\ NoneOf(out, ToTell(t)) \/ (store[t] # 0 /\ LastIs(out, ToTell(t), {Plain(t, store[t])}))
           /\ \A t \in OfDac :
                 LET k == IF e \in ToTell("MCP4728Event") THEN e.value ELSE store["MCP4728Event"]
                 IN NoneOf(out, ToTell(t)) \/ LastIs(out, ToTell(t), {Plain(t, k)})
<1> DEFINE S == Outs(e, store, now)
           k == IF e \in ToTell("MCP4728Event") THEN e.value ELSE store["MCP4728Event"]
<1>1. \A x \in FlEvents : x = [kind |-> x.kind, type |-> x.type, value |-> x.value]
  BY DEF FlEvents
<1>2. \A x \in S :
        /\ x \in FlEvents
        /\ x.kind = "store" => x.value = now[x.type]
        /\ x.kind = "plain" /\ x.type \in MeasuredNames => x.value # 0 /\ x.value = store[x.type]
        /\ x.kind = "plain" /\ x.type \in OfDac => x.value = k
  BY DEF Outs
<1>4. S \subseteq FlEvents
  BY <1>2
<1> HIDE DEF S, k
<1>3. /\ \A t : \A x \in S : x \in ToStore(t) => x \in {Wrapped(t, now[t])}
      /\ \A t \in MeasuredNames : \A x \in S : x \in ToTell(t) => x \in {Plain(t, store[t])} /\ store[t] # 0
      /\ \A t \in OfDac : \A x \in S : x \in ToTell(t) => x \in {Plain(t, k)}
  <2>1. ASSUME NEW t, NEW x \in S, x \in ToStore(t) PROVE x = Wrapped(t, now[t])
    BY <1>1, <1>2, <2>1 DEF ToStore, Wrapped
  <2>2. ASSUME NEW t \in MeasuredNames, NEW x \in S, x \in ToTell(t) PROVE x = Plain(t, store[t]) /\ store[t] # 0
    BY <1>1, <1>2, <2>2 DEF ToTell, Plain
  <2>3. ASSUME NEW t \in OfDac, NEW x \in S, x \in ToTell(t) PROVE x = Plain(t, k)
    BY <1>1, <1>2, <2>3 DEF ToTell, Plain
  <2> QED
    BY <2>1, <2>2, <2>3
<1>5. out \in Seq(S)
  BY DEF S
<1>6. out \in Seq(FlEvents)
  BY <1>4, <1>5
<1>7. ASSUME NEW t \in MeasuredNames
      PROVE  /\ NoneOf(out, ToStore(t)) \/ LastIs(out, ToStore(t), {Wrapped(t, now[t])})
             /\ NoneOf(out, ToTell(t)) \/ (store[t] # 0 /\ LastIs(out, ToTell(t), {Plain(t, store[t])}))
  <2>1. NoneOf(out, ToStore(t)) \/ LastIs(out, ToStore(t), {Wrapped(t, now[t])})
    BY <1>3, <1>5, GoodOnes
  <2>2. NoneOf(out, ToTell(t)) \/ LastIs(out, ToTell(t), {Plain(t, store[t])})
    BY <1>3, <1>5, GoodOnes
  <2>3. NoneOf(out, ToTell(t)) \/ store[t] # 0
    <3>1. \A p \in 1..Len(out) : out[p] \in S
      BY <1>5
    <3> QED
      BY <1>3, <3>1 DEF NoneOf
  <2> QED
    BY <2>1, <2>2, <2>3
<1>8. ASSUME NEW t \in OfDac PROVE NoneOf(out, ToTell(t)) \/ LastIs(out, ToTell(t), {Plain(t, k)})
  BY <1>3, <1>5, GoodOnes
<1> QED
  BY <1>6, <1>7, <1>8 DEF k

\* After the build there is a store.
LEMMA BuiltIs == \A f \in [Types -> Nat] : f # <<>>
<1>1. "CfgMsg" \in Types
  BY TypesAre
<1>2. DOMAIN <<>> = 1..0
  OBVIOUS
<1> QED
  BY <1>1, <1>2

\* A delivery keeps the types and the values.
LEMMA DeliversTyped ==
    ASSUME FlTypeOK, ValuesAreKnown, NEW out, Delivers(Head(flQueue), out)
    PROVE  FlTypeOK' /\ ValuesAreKnown' /\ out \in Seq(FlEvents) /\ Built /\ Built'
<1> DEFINE S == Outs(Head(flQueue), flStore', flSaid')
<1>1. /\ flQueue # <<>> /\ flQueue' = Tail(flQueue) \o out /\ out \in Seq(S)
      /\ flClient' = flClient /\ flCount' \in Nat /\ FlowTyped(flStore', flTold', flSaid')
      /\ flSaid'["MCP4728Event"] >= 1
  BY DEF Delivers
<1>2. S \subseteq FlEvents /\ S \subseteq KnownEvents
  <2>1. S \subseteq FlEvents
    BY DEF Outs
  <2>2. ASSUME NEW x \in S PROVE x \in KnownEvents
    BY NamesAre, LinesAre, <2>1, <2>2 DEF KnownEvents, Outs, FlEvents
  <2> QED
    BY <2>1, <2>2
<1> HIDE DEF S
<1>3. \A M : \A s \in Seq(S) : S \subseteq M => s \in Seq(M)
  OBVIOUS
<1>4. out \in Seq(FlEvents) /\ out \in Seq(KnownEvents)
  BY <1>1, <1>2, <1>3
<1>5. \A M : \A q, s \in Seq(M) : q # <<>> => Tail(q) \o s \in Seq(M)
  OBVIOUS
<1>6. flQueue' \in Seq(FlEvents) /\ flQueue' \in Seq(KnownEvents)
  BY <1>1, <1>4, <1>5 DEF FlTypeOK, ValuesAreKnown
<1>7. Built' /\ Built
  BY <1>1, BuiltIs DEF FlowTyped, Built, FlTypeOK
<1>8. FlTypeOK'
  BY <1>1, <1>6, <1>7 DEF FlTypeOK, FlowTyped
<1>9. ValuesAreKnown'
  BY <1>1, <1>6 DEF ValuesAreKnown
<1> QED
  BY <1>4, <1>7, <1>8, <1>9

\* ... and the queue.
LEMMA DeliversQueue ==
    ASSUME FlIInv, NEW out, Delivers(Head(flQueue), out)
    PROVE  /\ flQueue # <<>> /\ flQueue \in Seq(FlEvents) /\ out \in Seq(FlEvents) /\ Built
           /\ flQueue' = Tail(flQueue) \o out /\ Tail(flQueue) \in Seq(FlEvents)
<1>1. flQueue # <<>> /\ flQueue' = Tail(flQueue) \o out
  BY DEF Delivers
<1>2. flQueue \in Seq(FlEvents)
  BY DEF FlIInv, FlTypeOK
<1>3. out \in Seq(FlEvents) /\ Built
  BY DeliversTyped DEF FlIInv
<1>4. Tail(flQueue) \in Seq(FlEvents)
  BY <1>1, <1>2
<1> QED
  BY <1>1, <1>2, <1>3, <1>4

\* ... and the store follows the hardware.
LEMMA DeliversStore ==
    ASSUME FlIInv, NEW out, Delivers(Head(flQueue), out), NEW t \in MeasuredNames
    PROVE  /\ Settles(flQueue', ToStore(t), {Wrapped(t, flSaid'[t])}, flStore'[t] = flSaid'[t])
           /\ flStore'[t] = 0 => NoneOf(flQueue', ToTell(t)) /\ flTold'[t] = 0
<1> DEFINE e == Head(flQueue)
<1>1. /\ flQueue # <<>> /\ flQueue \in Seq(FlEvents) /\ out \in Seq(FlEvents) /\ Built
      /\ flQueue' = Tail(flQueue) \o out /\ Tail(flQueue) \in Seq(FlEvents)
  BY DeliversQueue
<1>2. /\ NoneOf(out, ToStore(t)) \/ LastIs(out, ToStore(t), {Wrapped(t, flSaid'[t])})
      /\ NoneOf(out, ToTell(t)) \/ (flStore'[t] # 0 /\ LastIs(out, ToTell(t), {Plain(t, flStore'[t])}))
  BY OutIs DEF Delivers
<1>3. /\ IF e \in ToStore(t) THEN flStore'[t] = e.value ELSE flStore'[t] = flStore[t]
      /\ flSaid'[t] = flSaid[t] \/ ~NoneOf(out, ToStore(t))
      /\ flTold'[t] = IF flClient /\ e \in ToTell(t) THEN e.value ELSE flTold[t]
  BY DEF Delivers
<1>4. /\ Settles(flQueue, ToStore(t), {Wrapped(t, flSaid[t])}, flStore[t] = flSaid[t])
      /\ flStore[t] = 0 => NoneOf(flQueue, ToTell(t)) /\ flTold[t] = 0
  BY <1>1, NamesAre DEF FlIInv, StoreFollows, ToldIsStored
<1>5. Settles(flQueue', ToStore(t), {Wrapped(t, flSaid'[t])}, flStore'[t] = flSaid'[t])
  <2>1. CASE ~NoneOf(out, ToStore(t))
    <3>1. LastIs(flQueue', ToStore(t), {Wrapped(t, flSaid'[t])})
      BY <1>1, <1>2, <2>1, JoinedQueue
    <3> QED
      BY <3>1 DEF Settles
  <2>2. CASE NoneOf(out, ToStore(t))
    <3>1. flSaid'[t] = flSaid[t] /\ Settles(flQueue, ToStore(t), {Wrapped(t, flSaid[t])}, flStore[t] = flSaid[t])
      BY <1>3, <1>4, <2>2
    <3>2. e \in {Wrapped(t, flSaid[t])} => e \in ToStore(t) /\ e.value = flSaid[t]
      <4>1. e \in FlEvents
        BY <1>1
      <4> QED
        BY <4>1 DEF ToStore, Wrapped
    <3>3. /\ e \notin ToStore(t) => flStore'[t] = flStore[t]
          /\ e \in {Wrapped(t, flSaid[t])} => flStore'[t] = flSaid[t]
      BY <1>3, <3>2
    <3> HIDE DEF e
    <3>4. Settles(Tail(flQueue) \o out, ToStore(t), {Wrapped(t, flSaid[t])}, flStore'[t] = flSaid[t])
      BY <1>1, <2>2, <3>1, <3>3, StillSettles DEF e
    <3> QED
      BY <1>1, <3>1, <3>4
  <2> QED
    BY <2>1, <2>2
<1>6. ASSUME flStore'[t] = 0 PROVE NoneOf(flQueue', ToTell(t)) /\ flTold'[t] = 0
  <2>1. e \notin ToStore(t)
    <3>1. e.kind = "store" => e.value >= 1
      BY <1>1, HeadIs DEF FlIInv
    <3> QED
      BY <1>3, <1>6, <3>1 DEF ToStore
  <2>2. NoneOf(flQueue, ToTell(t)) /\ flTold[t] = 0
    BY <1>3, <1>4, <1>6, <2>1
  <2>3. e \notin ToTell(t) /\ NoneOf(Tail(flQueue), ToTell(t))
    BY <1>1, <2>2, ShorterQueue
  <2> QED
    BY <1>1, <1>2, <1>3, <1>6, <2>2, <2>3, JoinedQueue
<1> QED
  BY <1>5, <1>6

\* ... and the client follows the store.
LEMMA DeliversClient ==
    ASSUME FlIInv, NEW out, Delivers(Head(flQueue), out), NEW t \in MeasuredNames, flClient
    PROVE  \/ ~NoneOf(flQueue', ToStore(t))
           \/ Learns(flQueue', t, flSaid'[t], flTold'[t] = flSaid'[t], Asks(t))
<1> DEFINE e == Head(flQueue)
           v == flSaid[t]
<1> SUFFICES ASSUME NoneOf(flQueue', ToStore(t))
             PROVE  Learns(flQueue', t, flSaid'[t], flTold'[t] = flSaid'[t], Asks(t))
  OBVIOUS
<1>1. /\ flQueue # <<>> /\ flQueue \in Seq(FlEvents) /\ out \in Seq(FlEvents) /\ Built
      /\ flQueue' = Tail(flQueue) \o out /\ Tail(flQueue) \in Seq(FlEvents)
  BY DeliversQueue
<1>2. NoneOf(out, ToTell(t)) \/ LastIs(out, ToTell(t), {Plain(t, flStore'[t])})
  BY OutIs DEF Delivers
<1>3. /\ IF e \in ToStore(t) THEN ~NoneOf(out, ToTell(t)) ELSE flStore'[t] = flStore[t]
      /\ flSaid'[t] = flSaid[t] \/ ~NoneOf(out, ToStore(t))
      /\ flTold'[t] = IF flClient /\ e \in ToTell(t) THEN e.value ELSE flTold[t]
      /\ e \in Asks(t) /\ flStore[t] # 0 => ~NoneOf(out, ToTell(t) \cup Asks(t))
  BY DEF Delivers
<1>4. NoneOf(Tail(flQueue), ToStore(t)) /\ NoneOf(out, ToStore(t))
  BY <1>1, JoinedQueue
<1>5. flSaid'[t] = v
  BY <1>3, <1>4
<1>6. flStore'[t] = v
  <2>1. Settles(flQueue', ToStore(t), {Wrapped(t, v)}, flStore'[t] = v)
    BY <1>5, DeliversStore
  <2>2. ~LastIs(flQueue', ToStore(t), {Wrapped(t, v)})
    <3>1. v \in Nat /\ t \in EventNames
      BY <1>1, <1>5, TypesAre DEF FlIInv, FlTypeOK, EventNames
    <3>2. Wrapped(t, v) \in ToStore(t)
      BY <3>1 DEF Wrapped, ToStore, FlEvents
    <3> QED
      BY <3>2, GoodIsOfKind
  <2> QED
    BY <2>1, <2>2 DEF Settles
<1>7. ASSUME ~NoneOf(out, ToTell(t)) PROVE Settles(flQueue', ToTell(t), {Plain(t, v)}, flTold'[t] = v)
  <2>1. LastIs(flQueue', ToTell(t), {Plain(t, v)})
    BY <1>1, <1>2, <1>6, <1>7, JoinedQueue
  <2> QED
    BY <2>1 DEF Settles
<1>8. CASE e \in ToStore(t)
  BY <1>3, <1>5, <1>7, <1>8 DEF Learns
<1>9. CASE e \notin ToStore(t)
  <2>1. NoneOf(flQueue, ToStore(t))
    BY <1>1, <1>4, <1>9, ShorterQueue
  <2>2. Learns(flQueue, t, v, flTold[t] = v, Asks(t))
    BY <1>1, <1>5, <2>1, NamesAre DEF FlIInv, ClientFollows
  <2>3. CASE Settles(flQueue, ToTell(t), {Plain(t, v)}, flTold[t] = v)
    <3>1. e \in {Plain(t, v)} => e \in ToTell(t) /\ e.value = v
      <4>1. e \in FlEvents
        BY <1>1
      <4> QED
        BY <4>1 DEF ToTell, Plain
    <3>2. /\ e \notin ToTell(t) => flTold'[t] = flTold[t]
          /\ e \in {Plain(t, v)} => flTold'[t] = v
      BY <1>3, <3>1
    <3>3. NoneOf(out, ToTell(t)) \/ LastIs(out, ToTell(t), {Plain(t, v)})
      BY <1>2, <1>6
    <3> HIDE DEF e, v
    <3>4. Settles(Tail(flQueue) \o out, ToTell(t), {Plain(t, v)}, flTold'[t] = v)
      BY <1>1, <2>3, <3>2, <3>3, StillSettles DEF e
    <3> QED
      BY <1>1, <1>5, <3>4 DEF Learns
  <2>4. CASE ~NoneOf(flQueue, Asks(t))
    <3>1. CASE ~NoneOf(Tail(flQueue), Asks(t))
      BY <1>1, <3>1, JoinedQueue DEF Learns
    <3>2. CASE e \in Asks(t) /\ flStore[t] # 0
      <4>1. ~NoneOf(out, ToTell(t)) \/ ~NoneOf(out, Asks(t))
        BY <1>3, <3>2 DEF NoneOf
      <4> QED
        BY <1>1, <1>5, <1>7, <4>1, JoinedQueue DEF Learns
    <3>3. CASE flStore[t] = 0
      <4>1. NoneOf(flQueue', ToTell(t)) /\ flTold'[t] = 0
        BY <1>3, <1>9, <3>3, DeliversStore
      <4>2. v = 0
        BY <1>3, <1>6, <1>9, <3>3
      <4> QED
        BY <1>5, <4>1, <4>2 DEF Learns, Settles
    <3> QED
      BY <1>1, <2>4, <3>1, <3>2, <3>3, ShorterQueue
  <2> QED
    BY <2>2, <2>3, <2>4 DEF Learns
<1> QED
  BY <1>8, <1>9

\* ... and what follows from the DAC.
LEMMA DeliversDac ==
    ASSUME FlIInv, NEW out, Delivers(Head(flQueue), out), NEW t \in OfDac, flClient
    PROVE  \/ ~NoneOf(flQueue', ToStore("MCP4728Event") \cup ToTell("MCP4728Event"))
           \/ Learns(flQueue', t, flSaid'["MCP4728Event"], flTold'[t] = flSaid'["MCP4728Event"], Asks("MCP4728Event"))
<1> DEFINE e == Head(flQueue)
           D == "MCP4728Event"
           now == flSaid[D]
           k == IF e \in ToTell(D) THEN e.value ELSE flStore'[D]
<1> SUFFICES ASSUME NoneOf(flQueue', ToStore(D) \cup ToTell(D))
             PROVE  Learns(flQueue', t, flSaid'[D], flTold'[t] = flSaid'[D], Asks(D))
  OBVIOUS
<1>1. /\ flQueue # <<>> /\ flQueue \in Seq(FlEvents) /\ out \in Seq(FlEvents) /\ Built
      /\ flQueue' = Tail(flQueue) \o out /\ Tail(flQueue) \in Seq(FlEvents)
  BY DeliversQueue
<1>2. NoneOf(flQueue', ToStore(D)) /\ NoneOf(flQueue', ToTell(D))
  BY WiderKind
<1>3. /\ NoneOf(Tail(flQueue), ToStore(D)) /\ NoneOf(Tail(flQueue), ToTell(D))
      /\ NoneOf(out, ToStore(D)) /\ NoneOf(out, ToTell(D))
  BY <1>1, <1>2, JoinedQueue
<1>4. D \in MeasuredNames
  BY DEF MeasuredNames
<1>5. /\ IF e \in ToStore(D) THEN ~NoneOf(out, ToTell(D)) ELSE flStore'[D] = flStore[D]
      /\ flSaid'[D] = flSaid[D] \/ ~NoneOf(out, ToStore(D))
      /\ flTold'[t] = IF flClient /\ e \in ToTell(t) THEN e.value ELSE flTold[t]
      /\ e \in Asks(D) => ~NoneOf(out, ToStore(D) \cup Asks(D))
      /\ e \in ToTell(D) => ~NoneOf(out, ToTell(t))
      /\ flSaid'[D] >= 1
  BY <1>4 DEF Delivers
<1>6. flSaid'[D] = now /\ now >= 1 /\ now \in Nat
  <2>1. flSaid[D] \in Nat /\ flSaid[D] >= 1
    BY <1>1, <1>4, TypesAre DEF FlIInv, FlTypeOK, ValuesAreKnown
  <2> QED
    BY <1>3, <1>5, <2>1
<1>7. flStore'[D] = now
  <2>1. Settles(flQueue', ToStore(D), {Wrapped(D, now)}, flStore'[D] = now)
    BY <1>4, <1>6, DeliversStore
  <2>2. Wrapped(D, now) \in ToStore(D)
    BY <1>4, <1>6, TypesAre DEF Wrapped, ToStore, FlEvents, EventNames
  <2> QED
    BY <1>2, <2>1, <2>2, GoodIsOfKind DEF Settles
<1>8. NoneOf(out, ToTell(t)) \/ LastIs(out, ToTell(t), {Plain(t, k)})
  BY OutIs DEF Delivers
<1>9. e \notin ToStore(D)
  BY <1>3, <1>5
<1>10. NoneOf(flQueue, ToStore(D))
  BY <1>1, <1>3, <1>9, ShorterQueue
<1>11. CASE e \in ToTell(D)
  <2>1. Learns(flQueue, D, now, flTold[D] = now, Asks(D))
    BY <1>1, <1>4, <1>6, <1>10, NamesAre DEF FlIInv, ClientFollows
  <2>2. CASE ~NoneOf(flQueue, Asks(D))
    <3>1. e \notin Asks(D)
      BY <1>11, NamesAre DEF ToTell, Asks, RequestNames
    <3>2. ~NoneOf(Tail(flQueue), Asks(D))
      BY <1>1, <2>2, <3>1, ShorterQueue
    <3> QED
      BY <1>1, <3>2, JoinedQueue DEF Learns
  <2>3. CASE Settles(flQueue, ToTell(D), {Plain(D, now)}, flTold[D] = now)
    <3>1. ~NoneOf(flQueue, ToTell(D))
      BY <1>1, <1>11, ShorterQueue
    <3>2. LastIs(flQueue, ToTell(D), {Plain(D, now)})
      BY <2>3, <3>1 DEF Settles
    <3>3. ~LastIs(Tail(flQueue), ToTell(D), {Plain(D, now)})
      <4>1. Plain(D, now) \in ToTell(D)
        BY <1>4, <1>6, TypesAre DEF Plain, ToTell, FlEvents, EventNames
      <4> QED
        BY <1>3, <4>1, GoodIsOfKind
    <3>4. e \in {Plain(D, now)}
      BY <1>1, <3>2, <3>3, ShorterQueue
    <3>5. k = now
      BY <1>11, <3>4 DEF Plain
    <3>6. LastIs(flQueue', ToTell(t), {Plain(t, now)})
      BY <1>1, <1>5, <1>8, <1>11, <3>5, JoinedQueue
    <3> QED
      BY <1>6, <3>6 DEF Learns, Settles
  <2> QED
    BY <2>1, <2>2, <2>3 DEF Learns
<1>12. CASE e \notin ToTell(D)
  <2>1. NoneOf(flQueue, ToTell(D))
    BY <1>1, <1>3, <1>12, ShorterQueue
  <2>2. NoneOf(flQueue, ToStore(D) \cup ToTell(D))
    BY <1>10, <2>1 DEF NoneOf
  <2>3. Learns(flQueue, t, now, flTold[t] = now, Asks(D))
    BY <1>1, <2>2 DEF FlIInv, DacFollows
  <2>4. CASE Settles(flQueue, ToTell(t), {Plain(t, now)}, flTold[t] = now)
    <3>1. e \in {Plain(t, now)} => e \in ToTell(t) /\ e.value = now
      <4>1. e \in FlEvents
        BY <1>1
      <4> QED
        BY <4>1 DEF ToTell, Plain
    <3>2. /\ e \notin ToTell(t) => flTold'[t] = flTold[t]
          /\ e \in {Plain(t, now)} => flTold'[t] = now
      BY <1>5, <3>1
    <3>3. NoneOf(out, ToTell(t)) \/ LastIs(out, ToTell(t), {Plain(t, now)})
      BY <1>7, <1>8, <1>12
    <3> HIDE DEF e, now
    <3>4. Settles(Tail(flQueue) \o out, ToTell(t), {Plain(t, now)}, flTold'[t] = now)
      BY <1>1, <2>4, <3>2, <3>3, StillSettles DEF e
    <3> QED
      BY <1>1, <1>6, <3>4 DEF Learns
  <2>5. CASE ~NoneOf(flQueue, Asks(D))
    <3>1. CASE ~NoneOf(Tail(flQueue), Asks(D))
      BY <1>1, <3>1, JoinedQueue DEF Learns
    <3>2. CASE e \in Asks(D)
      <4>1. ~NoneOf(out, Asks(D))
        BY <1>3, <1>5, <3>2 DEF NoneOf
      <4> QED
        BY <1>1, <4>1, JoinedQueue DEF Learns
    <3> QED
      BY <1>1, <2>5, <3>1, <3>2, ShorterQueue
  <2> QED
    BY <2>3, <2>4, <2>5 DEF Learns
<1> QED
  BY <1>11, <1>12

\* ... and the status of the MQTT connection.
LEMMA DeliversMqtt ==
    ASSUME FlIInv, NEW out, Delivers(Head(flQueue), out)
    PROVE  MqttFollows'
<1> DEFINE e == Head(flQueue)
           M == "MqttStatusEvent"
           now == flSaid[M]
           Others == {x \in ToTell(M) : x.value # now}
<1>1. /\ flQueue # <<>> /\ flQueue \in Seq(FlEvents) /\ out \in Seq(FlEvents) /\ Built
      /\ flQueue' = Tail(flQueue) \o out /\ Tail(flQueue) \in Seq(FlEvents)
  BY DeliversQueue
<1>2. /\ now >= 1 /\ NoneOf(flQueue, Others)
      /\ flStore[M] = now \/ e \in ToTell(M)
      /\ flClient => flTold[M] = now \/ ~NoneOf(flQueue, ToTell(M) \cup Asks(M))
  BY <1>1 DEF FlIInv, MqttFollows
<1>3. /\ IF e \in ToTell(M) THEN flStore'[M] = e.value /\ flSaid'[M] = e.value
         ELSE flStore'[M] = flStore[M] /\ flSaid'[M] = flSaid[M]
      /\ flTold'[M] = IF flClient /\ e \in ToTell(M) THEN e.value ELSE flTold[M]
      /\ IsConnect(e) /\ flStore[M] # 0 => ~NoneOf(out, ToTell(M))
      /\ flClient' = flClient /\ out \in Seq(Outs(e, flStore', flSaid'))
  BY DEF Delivers
<1>4. e \notin Others /\ NoneOf(Tail(flQueue), Others)
  BY <1>1, <1>2, ShorterQueue
<1>5. flSaid'[M] = now /\ flStore'[M] = now
  BY <1>2, <1>3, <1>4
<1>6. NoneOf(out, Others)
  <2>1. \A p \in 1..Len(out) : out[p] \in Outs(e, flStore', flSaid')
    <3>1. \A S : \A s \in Seq(S) : \A p \in 1..Len(s) : s[p] \in S
      OBVIOUS
    <3> QED
      BY <1>3, <3>1
  <2>2. \A x \in Outs(e, flStore', flSaid') : x \in ToTell(M) => x.value = flStore'[M]
    BY DEF Outs
  <2> QED
    BY <1>5, <2>1, <2>2 DEF NoneOf
<1>7. NoneOf(flQueue', Others)
  BY <1>1, <1>4, <1>6, JoinedQueue
<1>8. ASSUME flClient PROVE flTold'[M] = now \/ ~NoneOf(flQueue', ToTell(M) \cup Asks(M))
  <2>1. CASE e \in ToTell(M)
    BY <1>3, <1>4, <1>8, <2>1
  <2>2. CASE e \notin ToTell(M) /\ flTold[M] # now
    <3>1. ~NoneOf(flQueue, ToTell(M) \cup Asks(M))
      BY <1>2, <1>8, <2>2
    <3>2. CASE ~NoneOf(Tail(flQueue), ToTell(M) \cup Asks(M))
      BY <1>1, <3>2, JoinedQueue
    <3>3. CASE e \in Asks(M)
      <4>1. IsConnect(e)
        <5>1. \A r \in RequestNames : Requests[r] # Answered(M)
          <6>1. \A r \in RequestNames : Requests[r].needs # M
            BY RequestsAre DEF MeasuredNames
          <6>2. Answered(M).needs = M
            BY DEF Answered
          <6> QED
            BY <6>1, <6>2
        <5> QED
          BY <3>3, <5>1, NamesAre DEF Asks, IsConnect
      <4>2. ~NoneOf(out, ToTell(M))
        BY <1>2, <1>3, <2>2, <4>1
      <4>3. ~NoneOf(out, ToTell(M) \cup Asks(M))
        BY <4>2, WiderKind
      <4> QED
        BY <1>1, <4>3, JoinedQueue
    <3> QED
      BY <1>1, <2>2, <3>1, <3>2, <3>3, ShorterQueue
  <2>3. CASE e \notin ToTell(M) /\ flTold[M] = now
    BY <1>3, <2>3
  <2> QED
    BY <2>1, <2>2, <2>3
<1> QED
  BY <1>2, <1>3, <1>5, <1>7, <1>8 DEF MqttFollows

\* A delivery keeps the invariant.
LEMMA DeliveryKeeps ==
    ASSUME FlIInv, Built, Deliver
    PROVE  FlIInv'
<1>1. \E out : Delivers(Head(flQueue), out)
  BY WrappedDelivers, SignalDelivers, PlainDelivers DEF FlIInv, Deliver
<1>2. PICK out : Delivers(Head(flQueue), out)
  BY <1>1
<1>3. FlTypeOK' /\ ValuesAreKnown' /\ TruthIs'
  BY <1>2, DeliversTyped, DeliveryIsTrue DEF FlIInv
<1>4. StoreFollows' /\ ToldIsStored'
  BY <1>2, DeliversStore, NamesAre DEF StoreFollows, ToldIsStored
<1>5. flClient' = flClient
  BY <1>2 DEF Delivers
<1>6. ClientFollows'
  BY <1>2, <1>5, DeliversClient, NamesAre DEF ClientFollows
<1>7. DacFollows'
  BY <1>2, <1>5, DeliversDac DEF DacFollows
<1>8. MqttFollows'
  BY <1>2, DeliversMqtt
<1> QED
  BY <1>3, <1>4, <1>6, <1>7, <1>8 DEF FlIInv

\* What is published on an empty queue.
LEMMA OneEvent ==
    ASSUME FlIInv, Built, flQueue = <<>>
    PROVE  /\ \A t \in MeasuredNames : flStore[t] = flSaid[t]
           /\ \A t \in MeasuredNames : flStore[t] = 0 => flTold[t] = 0
           /\ flClient => /\ \A t \in MeasuredNames : flTold[t] = flSaid[t]
                          /\ \A t \in OfDac : flTold[t] = flSaid["MCP4728Event"]
                          /\ flTold["MqttStatusEvent"] = flSaid["MqttStatusEvent"]
           /\ flStore["MqttStatusEvent"] = flSaid["MqttStatusEvent"] /\ flSaid["MqttStatusEvent"] >= 1
BY EmptyQueue, NamesAre DEF FlIInv, StoreFollows, ToldIsStored, ClientFollows, DacFollows, MqttFollows, Learns, Settles

\* Events that are about no type's value: commands and requests, and what makes log parameters.
Quiet ==
    {e \in FlEvents :
        /\ e.kind = "plain" /\ e.type \notin MeasuredNames \cup OfDac \cup {"MqttStatusEvent"}
        /\ e.type \in OperationNames \cup LineNames => e.value >= 1}

\* Such events tell no value and store none.
LEMMA QuietIs ==
    ASSUME NEW q \in Seq(Quiet)
    PROVE  /\ q \in Seq(FlEvents) /\ q \in Seq(KnownEvents)
           /\ \A t : NoneOf(q, ToStore(t))
           /\ \A t \in MeasuredNames \cup OfDac \cup {"MqttStatusEvent"} : NoneOf(q, ToTell(t))
<1>1. Quiet \subseteq FlEvents /\ Quiet \subseteq KnownEvents
  BY NamesAre, LinesAre DEF Quiet, KnownEvents
<1>2. \A S, T : \A s \in Seq(S) : S \subseteq T => s \in Seq(T)
  OBVIOUS
<1>3. \A p \in 1..Len(q) : q[p] \in Quiet
  OBVIOUS
<1>4. \A x \in Quiet : /\ \A t : x \notin ToStore(t)
                       /\ \A t \in MeasuredNames \cup OfDac \cup {"MqttStatusEvent"} : x \notin ToTell(t)
  BY DEF Quiet, ToStore, ToTell
<1> QED
  BY <1>1, <1>2, <1>3, <1>4 DEF NoneOf

\* When they are published the invariant holds on.
LEMMA QuietKeeps ==
    ASSUME FlIInv, Built, flQueue = <<>>, flQueue' \in Seq(Quiet), flCount' \in Nat,
           UNCHANGED <<flStore, flTold, flClient, flTruth>>
    PROVE  FlIInv'
<1>1. /\ flQueue' \in Seq(FlEvents) /\ flQueue' \in Seq(KnownEvents)
      /\ \A t : NoneOf(flQueue', ToStore(t))
      /\ \A t \in MeasuredNames \cup OfDac \cup {"MqttStatusEvent"} : NoneOf(flQueue', ToTell(t))
  BY QuietIs
<1>2. FlTypeOK' /\ ValuesAreKnown'
  BY <1>1 DEF FlIInv, FlTypeOK, ValuesAreKnown, Built, flTruth
<1>7. TruthIs'
  BY TruthStays DEF FlIInv
<1>3. StoreFollows' /\ ToldIsStored'
  BY <1>1, OneEvent, NamesAre DEF StoreFollows, ToldIsStored, Settles, Built, flTruth
<1>4. ClientFollows'
  BY <1>1, OneEvent, NamesAre DEF ClientFollows, Learns, Settles, Built, flTruth
<1>5. DacFollows'
  BY <1>1, OneEvent DEF DacFollows, Learns, Settles, Built, flTruth
<1>6. MqttFollows'
  <2>1. NoneOf(flQueue', {e \in ToTell("MqttStatusEvent") : e.value # flSaid'["MqttStatusEvent"]})
    BY <1>1, WiderKind
  <2> QED
    BY <1>1, <2>1, OneEvent DEF MqttFollows, Built, flTruth
<1> QED
  BY <1>2, <1>3, <1>4, <1>5, <1>6, <1>7 DEF FlIInv

\* A command of the client, and a poll.
LEMMA CommandKeeps ==
    ASSUME FlIInv, Built, Command
    PROVE  FlIInv'
<1>1. PICK t \in DecodedTypes : Stimulus(Plain(t, flCount + 2)) /\ flClient /\ UNCHANGED flTruth
  BY DEF Command
<1>2. flCount \in Nat
  BY DEF FlIInv, FlTypeOK
<1>3. Plain(t, flCount + 2) \in Quiet
  <2>1. flCount + 2 \in Nat /\ flCount + 2 >= 1
    BY <1>2
  <2>2. t \in EventNames /\ t \notin MeasuredNames \cup OfDac \cup {"MqttStatusEvent"}
    BY DecodedAre DEF EventNames
  <2> QED
    BY <2>1, <2>2 DEF Quiet, Plain, FlEvents
<1>4. \A S : \A x \in S : <<x>> \in Seq(S)
  OBVIOUS
<1>5. flQueue = <<>> /\ flQueue' = <<Plain(t, flCount + 2)>> /\ flCount' \in Nat
  BY <1>1, <1>2 DEF Stimulus
<1>6. flQueue' \in Seq(Quiet)
  BY <1>3, <1>4, <1>5
<1> QED
  BY <1>1, <1>5, <1>6, QuietKeeps DEF Stimulus

\* LogParameterProcessor::poll().
LEMMA PollKeeps ==
    ASSUME FlIInv, Built, Poll
    PROVE  FlIInv'
<1>1. {"LogParameter", "BiasCurrentEvent", "Histogram"} \subseteq
          EventNames \ (MeasuredNames \cup OfDac \cup {"MqttStatusEvent"} \cup OperationNames \cup LineNames)
  BY DEF EventNames, MeasuredNames, OfDac, OperationNames, LineNames
<1>2. \A n \in {"LogParameter", "BiasCurrentEvent", "Histogram"} : Plain(n, 0) \in Quiet
  BY <1>1 DEF Quiet, Plain, FlEvents
<1>3. \A S : \A x, y, z \in S : <<x>> \in Seq(S) /\ <<x, y, z>> \in Seq(S)
  OBVIOUS
<1>4. flQueue' \in Seq(Quiet)
  BY <1>2, <1>3 DEF Poll
<1>5. flCount' \in Nat
  BY DEF Poll, FlIInv, FlTypeOK
<1> QED
  BY <1>4, <1>5, QuietKeeps DEF Poll

\* A source has read a value: a wrapped one is to be stored, a plain one is of no type that is measured.
LEMMA SourceKeeps ==
    ASSUME FlIInv, Built, Source
    PROVE  FlIInv'
<1> DEFINE v == flCount + 2
           M == "MqttStatusEvent"
<1>1. PICK t \in Sources \cup PlainSources :
          /\ flQueue = <<>> /\ flCount' = flCount + 1 /\ UNCHANGED <<flStore, flTold, flClient>>
          /\ Reports(t, v) /\ flSaid' = [flSaid EXCEPT ![t] = v]
          /\ (t \in Sources /\ flQueue' = <<Wrapped(t, v)>>) \/ (t \in PlainSources /\ flQueue' = <<Plain(t, v)>>)
  BY DEF Source, Stimulus, Reports
<1>2. /\ flCount \in Nat /\ v \in Nat /\ v >= 1 /\ FlowTyped(flStore, flTold, flSaid)
      /\ flClient \in BOOLEAN /\ flSaid["MCP4728Event"] >= 1
  BY DEF FlIInv, FlTypeOK, ValuesAreKnown, FlowTyped
<1>3. /\ t \in Types /\ t \in EventNames /\ t \notin OfDac \cup LineNames \cup {"MCP4728Event", "AdcModeEvent"}
      /\ t \in OperationNames => t = M
      /\ t \in Sources => t # M /\ t \notin OperationNames
      /\ t \in PlainSources => t \notin MeasuredNames
  <2>1. t \in Types /\ t \in EventNames
    BY TypesAre DEF EventNames
  <2> QED
    BY <2>1 DEF Sources, PlainSources, OfDac, LineNames, OperationNames, MeasuredNames
<1>4. flSaid' \in [Types -> Nat] /\ flSaid'[t] = v /\ \A x \in Types : x # t => flSaid'[x] = flSaid[x]
  BY <1>1, <1>2, <1>3, SaidChanges
<1>5. MeasuredNames \cup OfDac \cup {M, "AdcModeEvent"} \subseteq Types /\ "MCP4728Event" \in MeasuredNames
  BY TypesAre DEF MeasuredNames
<1>6. PICK e \in {Wrapped(t, v), Plain(t, v)} :
          /\ flQueue' = <<e>>
          /\ e = Wrapped(t, v) => t \in Sources
          /\ e = Plain(t, v) => t \in PlainSources
  <2>1. Wrapped(t, v) # Plain(t, v)
    <3>1. Wrapped(t, v).kind = "store" /\ Plain(t, v).kind = "plain"
      BY DEF Wrapped, Plain
    <3> QED
      BY <3>1
  <2> QED
    BY <1>1, <2>1
<1>7. e \in FlEvents /\ e \in KnownEvents /\ e.value = v /\ e.type = t
  <2>1. e.value = v /\ e.type = t /\ e.kind \in {"store", "plain"} /\ (e.kind = "store" => e = Wrapped(t, v))
    BY <1>6 DEF Wrapped, Plain
  <2>2. e \in FlEvents
    BY <1>2, <1>3, <1>6 DEF Wrapped, Plain, FlEvents
  <2> HIDE DEF v
  <2> QED
    BY <1>2, <1>3, <1>6, <2>1, <2>2, NamesAre DEF KnownEvents
<1>8. /\ t \in MeasuredNames => e \in {Wrapped(t, v)} /\ e \in ToStore(t)
      /\ \A x : x # t => e \notin ToStore(x) /\ e \notin ToTell(x)
      /\ \A x \in MeasuredNames \cup OfDac : e \notin ToTell(x)
      /\ t = M => e \in ToTell(M)
  <2>1. \A x : e \in ToStore(x) => x = t
    BY <1>7 DEF ToStore
  <2>2. \A x : e \in ToTell(x) => x = t /\ e = Plain(t, v)
    BY <1>6, <1>7 DEF ToTell, Wrapped, Plain
  <2>3. t \in MeasuredNames => e = Wrapped(t, v) /\ e \in ToStore(t)
    BY <1>3, <1>6, <1>7 DEF ToStore, Wrapped
  <2>4. t = M => e = Plain(M, v) /\ e \in ToTell(M)
    BY <1>3, <1>6, <1>7 DEF ToTell, Plain
  <2> QED
    BY <1>3, <1>6, <2>1, <2>2, <2>3, <2>4
<1> HIDE DEF v
<1>9. \A S : \A x \in S : <<x>> \in Seq(S)
  OBVIOUS
<1>10. FlTypeOK' /\ ValuesAreKnown'
  <2>1. flQueue' \in Seq(FlEvents) /\ flQueue' \in Seq(KnownEvents) /\ flCount' \in Nat
    BY <1>1, <1>2, <1>6, <1>7, <1>9
  <2>2. flSaid'["MCP4728Event"] >= 1
    BY <1>2, <1>3, <1>4, <1>5
  <2> QED
    BY <1>1, <1>2, <1>4, <2>1, <2>2 DEF FlTypeOK, ValuesAreKnown, FlowTyped, Built
<1>17. TruthIs'
  <2>1. flSaid \in [Types -> Nat]
    BY <1>2 DEF FlowTyped
  <2> QED
    BY <1>1, <1>2, <1>3, <2>1, TruthMoves DEF FlIInv
<1>11. /\ \A kind : NoneOf(flQueue', kind) <=> e \notin kind
       /\ \A kind, good : e \in good => LastIs(flQueue', kind, good)
  BY <1>6, OneMessage
<1>12. StoreFollows'
  <2>1. ASSUME NEW x \in MeasuredNames
        PROVE  Settles(flQueue', ToStore(x), {Wrapped(x, flSaid'[x])}, flStore'[x] = flSaid'[x])
    <3>1. CASE x = t
      BY <1>4, <1>8, <1>11, <3>1 DEF Settles
    <3>2. CASE x # t
      <4>1. flStore[x] = flSaid[x]
        BY <1>1, OneEvent
      <4> QED
        BY <1>1, <1>4, <1>5, <1>8, <1>11, <3>2, <4>1 DEF Settles
    <3> QED
      BY <3>1, <3>2
  <2> QED
    BY <2>1, NamesAre DEF StoreFollows
<1>13. ToldIsStored'
  BY <1>1, <1>8, <1>11, OneEvent, NamesAre DEF ToldIsStored
<1>14. ClientFollows'
  <2>1. ASSUME flClient', NEW x \in MeasuredNames
        PROVE  \/ ~NoneOf(flQueue', ToStore(x))
               \/ Learns(flQueue', x, flSaid'[x], flTold'[x] = flSaid'[x], Asks(x))
    <3>1. CASE x = t
      BY <1>8, <1>11, <3>1
    <3>2. CASE x # t
      <4>1. flTold[x] = flSaid[x]
        BY <1>1, <2>1, OneEvent
      <4> QED
        BY <1>1, <1>4, <1>5, <1>8, <1>11, <3>2, <4>1 DEF Settles, Learns
    <3> QED
      BY <3>1, <3>2
  <2> QED
    BY <2>1, NamesAre DEF ClientFollows
<1>15. DacFollows'
  <2>1. ASSUME flClient', NEW x \in OfDac
        PROVE  Learns(flQueue', x, flSaid'["MCP4728Event"], flTold'[x] = flSaid'["MCP4728Event"], Asks("MCP4728Event"))
    <3>1. flTold[x] = flSaid["MCP4728Event"]
      BY <1>1, <2>1, OneEvent
    <3>2. flSaid'["MCP4728Event"] = flSaid["MCP4728Event"]
      BY <1>3, <1>4, <1>5
    <3> QED
      BY <1>1, <1>8, <1>11, <3>1, <3>2 DEF Settles, Learns
  <2> QED
    BY <2>1 DEF DacFollows
<1>16. MqttFollows'
  <2>1. CASE t = M
    <3>1. flSaid'[M] = v /\ e \in ToTell(M) /\ e.value = v
      BY <1>4, <1>7, <1>8, <2>1
    <3>2. NoneOf(flQueue', {x \in ToTell(M) : x.value # flSaid'[M]})
      BY <1>11, <3>1
    <3>3. flQueue' # <<>> /\ Head(flQueue') = e
      BY <1>6
    <3>4. ~NoneOf(flQueue', ToTell(M) \cup Asks(M))
      BY <1>11, <3>1
    <3> QED
      BY <1>2, <3>1, <3>2, <3>3, <3>4 DEF MqttFollows
  <2>2. CASE t # M
    <3>1. flSaid'[M] = flSaid[M]
      BY <1>4, <1>5, <2>2
    <3>2. NoneOf(flQueue', {x \in ToTell(M) : x.value # flSaid'[M]})
      BY <1>8, <1>11, <2>2
    <3> QED
      BY <1>1, <3>1, <3>2, OneEvent DEF MqttFollows
  <2> QED
    BY <2>1, <2>2
<1> QED
  BY <1>10, <1>12, <1>13, <1>14, <1>15, <1>16, <1>17 DEF FlIInv

\* A client connects: the event asks for everything.
LEMMA ArrivalKeeps ==
    ASSUME FlIInv, Built, Connect
    PROVE  FlIInv'
<1> DEFINE e == Plain("ServerConnCountEvent", 0)
           M == "MqttStatusEvent"
<1>1. flQueue' = Append(flQueue, e) /\ flClient' = TRUE /\ UNCHANGED <<flStore, flTold, flSaid, flTruth, flCount>>
  BY DEF Connect, flTruth
<1>2. flQueue \in Seq(FlEvents) /\ flQueue \in Seq(KnownEvents)
  BY DEF FlIInv, FlTypeOK, ValuesAreKnown
<1>3. e \in FlEvents /\ e \in KnownEvents /\ e.kind = "plain" /\ e.type = "ServerConnCountEvent"
  <2>1. e.kind = "plain" /\ e.type = "ServerConnCountEvent" /\ e \in FlEvents
    BY DEF Plain, FlEvents, EventNames
  <2> HIDE DEF e
  <2> QED
    BY <2>1, NamesAre DEF KnownEvents, OperationNames, LineNames
<1>4. /\ \A t : e \in Asks(t) /\ e \notin ToStore(t)
      /\ \A t \in MeasuredNames \cup {M} : e \notin ToTell(t)
  BY <1>3 DEF Asks, ToStore, ToTell, MeasuredNames
<1> HIDE DEF e
<1>5. \A S : \A q \in Seq(S) : \A x \in S : Append(q, x) \in Seq(S) /\ Append(q, x) = q \o <<x>> /\ <<x>> \in Seq(S)
                                            /\ Append(q, x) # <<>> /\ (q # <<>> => Head(Append(q, x)) = Head(q))
  OBVIOUS
<1>6. /\ flQueue' \in Seq(FlEvents) /\ flQueue' \in Seq(KnownEvents) /\ flQueue' # <<>>
      /\ flQueue' = flQueue \o <<e>> /\ <<e>> \in Seq(FlEvents) /\ (flQueue # <<>> => Head(flQueue') = Head(flQueue))
  BY <1>1, <1>2, <1>3, <1>5
<1>14. TruthIs'
  BY <1>1, TruthStays DEF FlIInv
<1>7. FlTypeOK' /\ ValuesAreKnown'
  BY <1>1, <1>6 DEF FlIInv, FlTypeOK, ValuesAreKnown, Built
<1>8. \A kind : NoneOf(flQueue', kind) <=> NoneOf(flQueue, kind) /\ e \notin kind
  BY <1>2, <1>6, JoinedQueue, OneMessage
<1>9. \A t : ~NoneOf(flQueue', Asks(t))
  BY <1>4, <1>8
<1>10. StoreFollows'
  <2>1. \A kind, good : e \notin kind /\ LastIs(flQueue, kind, good) => LastIs(flQueue', kind, good)
    BY <1>2, <1>6, JoinedQueue, OneMessage
  <2>2. ASSUME NEW t \in Measured
        PROVE  Settles(flQueue', ToStore(t), {Wrapped(t, flSaid'[t])}, flStore'[t] = flSaid'[t])
    BY <1>1, <1>4, <1>8, <2>1 DEF FlIInv, StoreFollows, Settles
  <2> QED
    BY <2>2 DEF StoreFollows
<1>11. ToldIsStored'
  BY <1>1, <1>4, <1>8, NamesAre DEF FlIInv, ToldIsStored
<1>12. ClientFollows' /\ DacFollows'
  BY <1>9 DEF ClientFollows, DacFollows, Learns
<1>13. MqttFollows'
  <2>1. NoneOf(flQueue', {x \in ToTell(M) : x.value # flSaid'[M]})
    BY <1>1, <1>4, <1>8 DEF FlIInv, MqttFollows
  <2>2. ~NoneOf(flQueue', ToTell(M) \cup Asks(M))
    BY <1>9, WiderKind
  <2> QED
    BY <1>1, <1>6, <2>1, <2>2 DEF FlIInv, MqttFollows
<1> QED
  BY <1>7, <1>10, <1>11, <1>12, <1>13, <1>14 DEF FlIInv

\* A client leaves, and forgets.
LEMMA LeaveKeeps ==
    ASSUME FlIInv, Built, Leave
    PROVE  FlIInv'
<1>1. flClient' = FALSE /\ flTold' = [t \in DOMAIN flTold |-> 0] /\ flCount' = flCount + 1
      /\ UNCHANGED <<flQueue, flStore, flSaid, flTruth>>
  BY DEF Leave, flTruth
<1>2. flTold' \in [Types -> Nat] /\ \A t \in Types : flTold'[t] = 0
  <2>1. DOMAIN flTold = Types
    BY DEF FlIInv, FlTypeOK
  <2> QED
    BY <1>1, <2>1
<1>3. FlTypeOK' /\ ValuesAreKnown'
  <2>1. flCount' \in Nat
    BY <1>1 DEF FlIInv, FlTypeOK
  <2>2. ValuesAreKnown'
    BY <1>1 DEF FlIInv, ValuesAreKnown, Built
  <2> QED
    BY <1>1, <1>2, <2>1, <2>2 DEF FlIInv, FlTypeOK, Built
<1>7. TruthIs'
  BY <1>1, TruthStays DEF FlIInv
<1>4. StoreFollows'
  BY <1>1 DEF FlIInv, StoreFollows
<1>5. ToldIsStored'
  BY <1>1, <1>2, NamesAre, TypesAre DEF FlIInv, ToldIsStored
<1>6. ClientFollows' /\ DacFollows' /\ MqttFollows'
  BY <1>1 DEF ClientFollows, DacFollows, MqttFollows, FlIInv
<1> QED
  BY <1>3, <1>4, <1>5, <1>6, <1>7 DEF FlIInv

\* What the build publishes: the port and the DAC as they are, and commands.
LEMMA StartUpIs ==
    ASSUME NEW read \in Nat, read >= 1
    PROVE
    /\ StartUp(read) \in Seq(KnownEvents) /\ StartUp(read) \in Seq(FlEvents)
    /\ LastIs(StartUp(read), ToStore("PcaSwitchEvent"), {Wrapped("PcaSwitchEvent", 1)})
    /\ LastIs(StartUp(read), ToStore("MCP4728Event"), {Wrapped("MCP4728Event", read)})
    /\ \A t \in MeasuredNames \ {"PcaSwitchEvent", "MCP4728Event"} : NoneOf(StartUp(read), ToStore(t))
    /\ \A t \in MeasuredNames \cup {"MqttStatusEvent"} : NoneOf(StartUp(read), ToTell(t))
<1> DEFINE At(t) == IF t = "MCP4728Event" THEN read ELSE 1
           W == {Wrapped("PcaSwitchEvent", 1), Wrapped("MCP4728Event", read), Wrapped("StatusLedEvent", 1)}
           Names == {"LogParameter", "BiasSwitchCmd", "PreampSwitchCmd", "GainSwitchCmd", "EventTriggerCmd",
                     "PolaritySwitchCmd", "UbxConfigDefaultCmd"}
           P == {Plain(n, 1) : n \in Names}
           S == W \cup P
           first == <<Wrapped("PcaSwitchEvent", 1), Wrapped("MCP4728Event", read), Plain("LogParameter", 1)>>
           names == <<"BiasSwitchCmd", "PreampSwitchCmd", "PreampSwitchCmd", "GainSwitchCmd">>
           last == <<Wrapped("StatusLedEvent", 1), Plain("EventTriggerCmd", 1), Plain("PolaritySwitchCmd", 1),
                     Plain("UbxConfigDefaultCmd", 1)>>
<1>1. Names \subseteq EventNames /\ {"PcaSwitchEvent", "MCP4728Event", "StatusLedEvent"} \subseteq EventNames
  <2>1. "StatusLedEvent" \in Types /\ {"PcaSwitchEvent", "MCP4728Event"} \subseteq Types
    BY TypesAre DEF Sources, MeasuredNames
  <2>2. Names \ {"LogParameter", "UbxConfigDefaultCmd"} \subseteq OperationNames \cup LineNames
    BY DEF OperationNames, LineNames
  <2> QED
    BY <2>1, <2>2, NamesAre DEF EventNames
<1>2. Names \cap (MeasuredNames \cup {"MqttStatusEvent"}) = {}
  BY DEF MeasuredNames
<1>3. \A x \in P : x \in FlEvents /\ x.kind = "plain" /\ x.type \in Names /\ x.value = 1
  BY <1>1 DEF Plain, FlEvents
<1>4. \A x \in W : x \in FlEvents /\ x.kind = "store" /\ x.value = At(x.type) /\ x.value >= 1
                   /\ x.type \in {"PcaSwitchEvent", "MCP4728Event", "StatusLedEvent"}
  BY <1>1 DEF Wrapped, FlEvents
<1>5. \A n \in Names : Plain(n, 1) \in P
  OBVIOUS
<1> HIDE DEF Names, P
<1>6. S \subseteq FlEvents
  BY <1>3, <1>4
<1>7. S \subseteq KnownEvents
  <2>1. \A x \in P : x \in KnownEvents
    BY <1>3 DEF KnownEvents
  <2>2. \A x \in W : x \in KnownEvents
    BY <1>4 DEF KnownEvents
  <2> QED
    BY <2>1, <2>2
<1>8. \A x \in S :
        /\ \A t \in MeasuredNames \cup {"MqttStatusEvent"} : x \notin ToTell(t)
        /\ \A t \in MeasuredNames \ {"PcaSwitchEvent", "MCP4728Event"} : x \notin ToStore(t)
        /\ \A t : x \in ToStore(t) => x = Wrapped(t, At(t))
  <2>1. \A x \in P : /\ \A t : x \notin ToStore(t)
                     /\ \A t \in MeasuredNames \cup {"MqttStatusEvent"} : x \notin ToTell(t)
    BY <1>2, <1>3 DEF ToStore, ToTell
  <2>2. \A x \in W : /\ \A t : x \notin ToTell(t)
                     /\ \A t : x \in ToStore(t) => t = x.type /\ x = Wrapped(t, At(t))
    <3>1. ASSUME NEW x \in W, NEW t, x \in ToStore(t) PROVE t = x.type /\ x = Wrapped(t, At(t))
      BY <1>4, <3>1 DEF ToStore, Wrapped, FlEvents
    <3> QED
      BY <1>4, <3>1 DEF ToTell
  <2>3. "StatusLedEvent" \notin MeasuredNames
    BY DEF MeasuredNames
  <2> QED
    BY <1>4, <2>1, <2>2, <2>3
<1>9. {Plain("LogParameter", 1), Plain("EventTriggerCmd", 1), Plain("PolaritySwitchCmd", 1),
       Plain("UbxConfigDefaultCmd", 1)} \subseteq S
  BY <1>5 DEF Names
<1>10. {Wrapped("PcaSwitchEvent", 1), Wrapped("MCP4728Event", read), Wrapped("StatusLedEvent", 1)} \subseteq S
  OBVIOUS
<1>11. names \in Seq(Names)
  BY DEF Names
<1> HIDE DEF W, S, names
<1>12. Plains(names, 1) \in Seq(S)
  <2>1. \A n \in Names : Plain(n, 1) \in S
    BY <1>5 DEF S
  <2> QED
    BY <1>11, <2>1, PlainsAre
<1>13. first \in Seq(S) /\ last \in Seq(S)
  BY <1>9, <1>10
<1>14. StartUp(read) = first \o Plains(names, 1) \o last
  BY DEF StartUp, names
<1>15. first[1] = Wrapped("PcaSwitchEvent", 1) /\ first[2] = Wrapped("MCP4728Event", read) /\ Len(first) = 3
  OBVIOUS
<1> HIDE DEF first, last
<1>16. StartUp(read) \in Seq(S)
  BY <1>12, <1>13, <1>14
<1>17. \A p \in 1..Len(StartUp(read)) : StartUp(read)[p] \in S
  BY <1>16
<1>18. StartUp(read) \in Seq(KnownEvents) /\ StartUp(read) \in Seq(FlEvents)
  BY <1>6, <1>7, <1>16
<1>19. ASSUME NEW t \in {"PcaSwitchEvent", "MCP4728Event"} PROVE LastIs(StartUp(read), ToStore(t), {Wrapped(t, At(t))})
  <2>1. NoneOf(StartUp(read), ToStore(t)) \/ LastIs(StartUp(read), ToStore(t), {Wrapped(t, At(t))})
    BY <1>8, <1>16, GoodOnes
  <2>2. Wrapped(t, At(t)) \in ToStore(t)
    BY <1>1 DEF Wrapped, ToStore, FlEvents
  <2>3. ~NoneOf(first, ToStore(t))
    BY <1>15, <2>2 DEF NoneOf
  <2>4. ~NoneOf(StartUp(read), ToStore(t))
    <3>1. first \o Plains(names, 1) \in Seq(S)
      BY <1>12, <1>13
    <3>2. ~NoneOf(first \o Plains(names, 1), ToStore(t))
      BY <1>12, <1>13, <2>3, JoinedQueue
    <3> QED
      BY <1>13, <1>14, <3>1, <3>2, JoinedQueue
  <2> QED
    BY <2>1, <2>4
<1> QED
  BY <1>8, <1>17, <1>18, <1>19 DEF NoneOf

\* SystemBuilder::build().
LEMMA BuildKeeps ==
    ASSUME FlIInv, build
    PROVE  FlIInv'
<1> DEFINE M == "MqttStatusEvent"
           D == "MCP4728Event"
           Known == Preset \cup {"PcaSwitchEvent", D, "AdcModeEvent"}
<1>1. PICK misled \in SUBSET {"PcaSwitchEvent", D}, read \in {1, Garbage} :
          /\ ~Built /\ flQueue' = StartUp(read) /\ UNCHANGED flClient /\ (Works \/ Fails)
          /\ flMisled' = misled /\ (D \notin misled => read = 1)
          /\ flStore' = [t \in Types |-> IF t \in Preset THEN 1 ELSE 0]
          /\ flSaid' = [t \in Types |-> IF t = D THEN read ELSE IF t \in Known THEN 1 ELSE 0]
          /\ flNow' = [t \in Types |->
                IF t = "PcaSwitchEvent" /\ t \in misled THEN Garbage ELSE IF t \in Known THEN 1 ELSE 0]
          /\ flTold' = [t \in Types |-> 0]
  BY DEF build
<1>2. flClient' = FALSE /\ flCount' \in Nat
  BY <1>1 DEF FlIInv, FlTypeOK, Works, Fails
<1>3. read \in Nat /\ read >= 1 /\ Garbage \in Nat
  BY EventFlowAssumption DEF Garbage
<1>4. /\ flStore' \in [Types -> Nat] /\ flTold' \in [Types -> Nat]
      /\ \A t \in Types : /\ flStore'[t] = IF t \in Preset THEN 1 ELSE 0
                          /\ flTold'[t] = 0
  BY <1>1, Zenon
<1>5. /\ flSaid' \in [Types -> Nat]
      /\ \A t \in Types : flSaid'[t] = IF t = D THEN read ELSE IF t \in Known THEN 1 ELSE 0
  <2>1. flSaid' = [t \in Types |-> IF t = D THEN read ELSE IF t \in Known THEN 1 ELSE 0]
    BY <1>1
  <2> HIDE DEF Known
  <2> QED
    BY <1>3, <2>1
<1>6. /\ flNow' \in [Types -> Nat]
      /\ \A t \in Types : flNow'[t] = IF t = "PcaSwitchEvent" /\ t \in misled THEN Garbage
                                      ELSE IF t \in Known THEN 1 ELSE 0
  <2>1. flNow' = [t \in Types |->
            IF t = "PcaSwitchEvent" /\ t \in misled THEN Garbage ELSE IF t \in Known THEN 1 ELSE 0]
    BY <1>1
  <2> HIDE DEF Known
  <2> QED
    BY <1>3, <2>1
<1>7. Built'
  BY <1>4, BuiltIs DEF Built
<1>8. MeasuredNames \cup {M, "AdcModeEvent"} \subseteq Types /\ D \in MeasuredNames /\ M # D
  BY TypesAre DEF MeasuredNames
<1>9. M \in Preset /\ \A t \in MeasuredNames \ {"PcaSwitchEvent", D} : t \in Preset <=> t \in Known
  BY DEF Preset, MeasuredNames
<1>10. /\ StartUp(read) \in Seq(KnownEvents) /\ StartUp(read) \in Seq(FlEvents)
       /\ LastIs(StartUp(read), ToStore("PcaSwitchEvent"), {Wrapped("PcaSwitchEvent", 1)})
       /\ LastIs(StartUp(read), ToStore(D), {Wrapped(D, read)})
       /\ \A t \in MeasuredNames \ {"PcaSwitchEvent", D} : NoneOf(StartUp(read), ToStore(t))
       /\ \A t \in MeasuredNames \cup {M} : NoneOf(StartUp(read), ToTell(t))
  BY <1>3, StartUpIs
<1>11. FlTypeOK'
  <2>1. flClient' \in BOOLEAN /\ flQueue' \in Seq(FlEvents)
    BY <1>1, <1>2, <1>10
  <2> QED
    BY <1>2, <1>4, <1>5, <1>7, <2>1 DEF FlTypeOK
<1>12. ValuesAreKnown'
  BY <1>1, <1>3, <1>5, <1>8, <1>10 DEF ValuesAreKnown
<1>13. TruthIs'
  <2>1. flNow'[D] >= 1 /\ flNow'["AdcModeEvent"] >= 1
    BY <1>6, <1>8
  <2>2. ASSUME NEW t \in Types PROVE t \in flMisled' \/ flSaid'[t] = flNow'[t]
    <3>1. CASE t \in misled
      BY <1>1, <3>1
    <3>2. CASE t \notin misled /\ t = D
      <4>1. read = 1 /\ t \in Known
        BY <1>1, <3>2
      <4> QED
        BY <1>5, <1>6, <3>2, <4>1
    <3>3. CASE t \notin misled /\ t # D
      <4> HIDE DEF Known
      <4> QED
        BY <1>5, <1>6, <3>3
    <3> QED
      BY <3>1, <3>2, <3>3
  <2> QED
    BY <1>6, <2>1, <2>2 DEF TruthIs
<1>14. StoreFollows'
  <2>1. ASSUME NEW t \in MeasuredNames
        PROVE  Settles(flQueue', ToStore(t), {Wrapped(t, flSaid'[t])}, flStore'[t] = flSaid'[t])
    <3>1. CASE t = "PcaSwitchEvent"
      <4>1. flSaid'[t] = 1
        BY <1>5, <1>8, <3>1
      <4> QED
        BY <1>1, <1>10, <3>1, <4>1 DEF Settles
    <3>2. CASE t = D
      <4>1. flSaid'[t] = read
        BY <1>5, <1>8, <3>2
      <4> QED
        BY <1>1, <1>10, <3>2, <4>1 DEF Settles
    <3>3. CASE t \notin {"PcaSwitchEvent", D}
      <4>1. flStore'[t] = flSaid'[t]
        BY <1>4, <1>5, <1>8, <1>9, <3>3
      <4> QED
        BY <1>1, <1>10, <3>3, <4>1 DEF Settles
    <3> QED
      BY <3>1, <3>2, <3>3
  <2> QED
    BY <2>1, NamesAre DEF StoreFollows
<1>15. ToldIsStored'
  BY <1>1, <1>4, <1>8, <1>10, NamesAre DEF ToldIsStored
<1>16. ClientFollows' /\ DacFollows'
  BY <1>2 DEF ClientFollows, DacFollows
<1>17. MqttFollows'
  <2>1. flStore'[M] = 1 /\ flSaid'[M] = 1
    BY <1>4, <1>5, <1>8, <1>9
  <2>2. NoneOf(flQueue', {e \in ToTell(M) : e.value # flSaid'[M]})
    BY <1>1, <1>10, WiderKind
  <2> QED
    BY <1>2, <2>1, <2>2 DEF MqttFollows
<1> QED
  BY <1>11, <1>12, <1>13, <1>14, <1>15, <1>16, <1>17 DEF FlIInv

\* Before the build there is nothing.
LEMMA FlowStarts == FlowInit => FlIInv
<1> SUFFICES ASSUME FlowInit PROVE FlIInv
  OBVIOUS
<1>1. ~Built /\ flQueue = <<>> /\ flClient = FALSE /\ flCount = 0
  BY DEF FlowInit, Built
<1>2. \A S : <<>> \in Seq(S)
  OBVIOUS
<1> QED
  BY <1>1, <1>2 DEF FlIInv, FlTypeOK, ValuesAreKnown, TruthIs, StoreFollows, ToldIsStored, ClientFollows, DacFollows,
                    MqttFollows

\* Every step keeps the invariant.
LEMMA FlowStep == FlIInv /\ [FlowNext]_flVars => FlIInv'
<1> SUFFICES ASSUME FlIInv, [FlowNext]_flVars PROVE FlIInv'
  OBVIOUS
<1>1. CASE build
  BY <1>1, BuildKeeps
<1>2. CASE Built /\ Deliver
  BY <1>2, DeliveryKeeps
<1>3. CASE Built /\ Source
  BY <1>3, SourceKeeps
<1>4. CASE Built /\ Command
  BY <1>4, CommandKeeps
<1>5. CASE Built /\ Poll
  BY <1>5, PollKeeps
<1>6. CASE Built /\ Connect
  BY <1>6, ArrivalKeeps
<1>7. CASE Built /\ Leave
  BY <1>7, LeaveKeeps
<1>8. CASE UNCHANGED flVars
  BY <1>8 DEF flVars, FlIInv, FlTypeOK, ValuesAreKnown, TruthIs, StoreFollows, ToldIsStored, ClientFollows, DacFollows,
              MqttFollows, Built, Learns
<1> QED
  BY <1>1, <1>2, <1>3, <1>4, <1>5, <1>6, <1>7, <1>8 DEF FlowNext

\* When no event is on its way a connected client was told what was reported last of everything it
\* shows, whoever reported it and whenever the client connected, and that is the present value unless a
\* driver reported what is not so or kept a change to itself (EventBindings, the data store, TcpSink and
\* the drivers of the DAC, the port, the lines and the receiver).
THEOREM ClientStaysCurrent == FlowSpec => []ClientIsCurrent
<1>1. FlIInv => ClientIsCurrent
  <2> SUFFICES ASSUME FlIInv, flClient, flQueue = <<>>
               PROVE  /\ \A t \in Shown \ (NotKept \cup NeverSent) : Informed(t, t)
                      /\ \A t \in {"ThresholdSettingEvent", "BiasVoltageEvent"} : Informed(t, "MCP4728Event")
    BY DEF ClientIsCurrent
  <2>1. Built
    BY DEF FlIInv, FlTypeOK
  <2>2. Shown \ (NotKept \cup NeverSent) = Measured \cup {"MqttStatusEvent"}
    BY DEF Measured, Shown, NotKept, NeverSent
  <2>3. /\ \A t \in MeasuredNames \cup {"MqttStatusEvent"} : flTold[t] = flSaid[t]
        /\ \A t \in OfDac : flTold[t] = flSaid["MCP4728Event"]
    BY <2>1, OneEvent
  <2>4. MeasuredNames \cup {"MqttStatusEvent"} \subseteq Types \ {"PositionModeConfig", "GnssPosStruct"}
    BY TypesAre DEF MeasuredNames
  <2>5. \A t \in MeasuredNames \cup {"MqttStatusEvent"} : t \in flMisled \/ flSaid[t] = flNow[t]
    BY <2>1, <2>4 DEF FlIInv, TruthIs
  <2>6. "MCP4728Event" \in MeasuredNames
    BY DEF MeasuredNames
  <2> QED
    BY <2>2, <2>3, <2>5, <2>6, NamesAre DEF OfDac, Informed
<1>2. FlowInit => FlIInv
  BY FlowStarts
<1>3. FlIInv /\ [FlowNext]_flVars => FlIInv'
  BY FlowStep
<1> QED
  BY <1>1, <1>2, <1>3, PTL DEF FlowSpec
=============================================================================
