-------------------------- MODULE SerialUbloxProofs --------------------------
(***************************************************************************)
(* Proofs about the bringing up of the GNSS receiver, for any number of    *)
(* commands of the rest of the daemon and of faults: acknowledgements that *)
(* are read as something else, lost messages and failed reads; about the   *)
(* decoding of its messages, for any payloads it may send; and about its   *)
(* parser and that of the dust sensor, for any bytes on their lines.       *)
(***************************************************************************)
EXTENDS SerialUblox, UbxParser, MessageProcessor, Sds011, TLAPS, SequenceTheorems, FiniteSetTheorems,
        WellFoundedInduction

USE DEF IsAllowed, CommandsOnVersion, IsPending, StartsRound, StateAfterAck

UbloxTypeOK ==
    /\ init_state \in States
    /\ pending \in [Acked -> Nat]
    /\ tx \in Seq(Messages)
    /\ version \in {"none", "good", "bad"}
    /\ queuedCmds \in Nat
    /\ bus \in [Events -> Nat]
    /\ accepted \subseteq Acked
    /\ configured \in Nat

OnLine(m) == \E n \in 1..Len(tx) : tx[n] = m

\* An acknowledgement on its way is one the receiver has given; the rate is neither sent nor
\* acknowledged before the port was.
AcksAreGiven ==
    /\ \A m \in Acked : bus[Ack(m)] > 0 => m \in accepted
    /\ OnLine("RATE") \/ "RATE" \in accepted => "PRT" \in accepted

\* How far the driver has come tells what was acknowledged.
StateIsEarned ==
    /\ init_state # "Connecting" => "PRT" \in accepted
    /\ init_state \in {"ReceivedRateAck", "Ready"} => "RATE" \in accepted
    /\ configured = IF init_state = "Ready" THEN 1 ELSE 0

UbloxIInv == UbloxTypeOK /\ AcksAreGiven /\ StateIsEarned

-----------------------------------------------------------------------------
(* Sequences of messages. *)

LEMMA CountType == ASSUME NEW ms \in Seq(Messages), NEW m PROVE Count(ms, m) \in Nat
<1> DEFINE T == {n \in 1..Len(ms) : ms[n] = m}
<1>1. IsFiniteSet(1..Len(ms))
  <2>1. 1 \in Int /\ Len(ms) \in Int OBVIOUS
  <2> QED BY <2>1, FS_Interval
<1>2. T \subseteq 1..Len(ms) OBVIOUS
<1>3. IsFiniteSet(T) BY <1>1, <1>2, FS_Subset
<1> QED BY <1>3, FS_CardinalityType DEF Count

LEMMA CountedIsOnLine ==
    ASSUME tx \in Seq(Messages), NEW m, Count(tx, m) > 0 PROVE OnLine(m)
<1>1. ASSUME ~OnLine(m) PROVE FALSE
  <2>1. {n \in 1..Len(tx) : tx[n] = m} = {} BY <1>1 DEF OnLine
  <2>2. Cardinality({}) = 0 BY FS_EmptySet
  <2>3. Count(tx, m) = 0 BY <2>1, <2>2 DEF Count
  <2> QED BY <2>3
<1> QED BY <1>1

\* k messages of the kind CFG.
LEMMA ManyMessages ==
    ASSUME NEW k \in Nat
    PROVE  /\ [i \in 1..k |-> "CFG"] \in Seq(Messages)
           /\ \A n \in 1..Len([i \in 1..k |-> "CFG"]) : [i \in 1..k |-> "CFG"][n] = "CFG"
<1>1. [i \in 1..k |-> "CFG"] \in [1..k -> Messages] BY DEF Messages, Acked
<1>2. Len([i \in 1..k |-> "CFG"]) = k BY <1>1
<1> QED BY <1>1, <1>2

\* Messages that are sent go behind those on the line.
LEMMA SentMessages ==
    ASSUME UbloxTypeOK, NEW ms \in Seq(Messages), tx' = tx \o ms,
           "PRT" \in accepted \/ \A n \in 1..Len(ms) : ms[n] # "RATE"
    PROVE  /\ tx' \in Seq(Messages)
           /\ OnLine("RATE")' => OnLine("RATE") \/ "PRT" \in accepted
<1>1. tx \in Seq(Messages) BY DEF UbloxTypeOK
<1>2. /\ tx' \in Seq(Messages) /\ Len(tx') = Len(tx) + Len(ms) /\ Len(tx) \in Nat /\ Len(ms) \in Nat
      /\ \A n \in 1..(Len(tx) + Len(ms)) : tx'[n] = IF n <= Len(tx) THEN tx[n] ELSE ms[n - Len(tx)]
  BY <1>1, ConcatProperties
<1>3. ASSUME NEW n \in 1..Len(tx'), tx'[n] = "RATE", "PRT" \notin accepted PROVE OnLine("RATE")
  <2>1. CASE n <= Len(tx)
    <3>1. n \in 1..Len(tx) /\ tx[n] = "RATE" BY <2>1, <1>2, <1>3
    <3> QED BY <3>1 DEF OnLine
  <2>2. CASE ~(n <= Len(tx))
    <3>1. n - Len(tx) \in 1..Len(ms) /\ ms[n - Len(tx)] = "RATE" BY <2>2, <1>2, <1>3
    <3> QED BY <3>1, <1>3
  <2> QED BY <2>1, <2>2
<1> QED BY <1>2, <1>3 DEF OnLine

LEMMA TakenMessage ==
    ASSUME UbloxTypeOK, tx # <<>>, tx' = Tail(tx)
    PROVE  /\ tx' \in Seq(Messages) /\ Head(tx) \in Messages /\ OnLine(Head(tx))
           /\ \A m : OnLine(m)' => OnLine(m)
<1>1. tx \in Seq(Messages) BY DEF UbloxTypeOK
<1>2. /\ Len(tx) \in Nat /\ Len(tx) >= 1 /\ Len(Tail(tx)) = Len(tx) - 1
      /\ Head(tx) = tx[1] /\ Head(tx) \in Messages /\ Tail(tx) \in Seq(Messages)
      /\ \A n \in 1..(Len(tx) - 1) : Tail(tx)[n] = tx[n + 1]
  BY <1>1
<1>3. 1 \in 1..Len(tx) BY <1>2
<1>4. ASSUME NEW m, NEW n \in 1..Len(tx'), tx'[n] = m PROVE OnLine(m)
  <2>1. n + 1 \in 1..Len(tx) /\ tx[n + 1] = m BY <1>2, <1>4
  <2> QED BY <2>1 DEF OnLine
<1>5. OnLine(Head(tx)) BY <1>2, <1>3 DEF OnLine
<1> QED BY <1>2, <1>4, <1>5 DEF OnLine

-----------------------------------------------------------------------------
(* What the operations do to the line and to the bus. *)

SendStep ==
    /\ tx' \in Seq(Messages) /\ pending' \in [Acked -> Nat]
    /\ OnLine("RATE")' => OnLine("RATE") \/ "PRT" \in accepted

\* No acknowledgement is added to the bus.
BusStep ==
    /\ bus' \in [Events -> Nat]
    /\ \A m \in Acked : bus'[Ack(m)] > 0 => bus[Ack(m)] > 0

LEMMA AckIsEvent ==
    /\ Ack("PRT") = "ackPRT" /\ Ack("RATE") = "ackRATE" /\ Ack("CFG") = "ackCFG"
    /\ \A m \in Acked : Ack(m) \in Events /\ Ack(m) \in Acks
BY DEF Ack, Acked, Acks, Events

LEMMA SendIsSendStep ==
    ASSUME UbloxTypeOK, NEW ms \in Seq(Messages), Send(ms),
           "PRT" \in accepted \/ \A n \in 1..Len(ms) : ms[n] # "RATE"
    PROVE  SendStep
<1>1. tx' = tx \o ms /\ pending' = [m \in Acked |-> pending[m] + Count(ms, m)] BY DEF Send
<1>2. \A m \in Acked : pending[m] + Count(ms, m) \in Nat
  BY CountType DEF UbloxTypeOK
<1> QED BY <1>1, <1>2, SentMessages DEF SendStep

LEMMA NothingSent == ASSUME UbloxTypeOK, UNCHANGED <<tx, pending>> PROVE SendStep
BY DEF UbloxTypeOK, SendStep, OnLine

LEMMA EnqueueIsSendStep ==
    ASSUME UbloxTypeOK, StateIsEarned, NEW m \in Messages, Enqueue(m)
    PROVE  SendStep
<1>1. CASE ~IsAllowed(m)
  <2>1. UNCHANGED <<tx, pending>> BY <1>1 DEF Enqueue
  <2> QED BY <2>1, NothingSent
<1>2. CASE IsAllowed(m)
  <2>1. Send(<<m>>) BY <1>2 DEF Enqueue
  <2>2. <<m>> \in Seq(Messages) /\ \A n \in 1..Len(<<m>>) : <<m>>[n] = m OBVIOUS
  <2>3. m = "RATE" => "PRT" \in accepted BY <1>2 DEF StateIsEarned
  <2> QED BY <2>1, <2>2, <2>3, SendIsSendStep
<1> QED BY <1>1, <1>2

LEMMA CommandsRun ==
    ASSUME UbloxTypeOK, StateIsEarned, NEW n \in Nat, NEW v \in {"none", "good", "bad"},
           NEW b \in [Events -> Nat], RunCommands(n, v, b)
    PROVE  /\ SendStep /\ queuedCmds' \in Nat /\ bus' \in [Events -> Nat]
           /\ \A e \in Acks : bus'[e] = b[e]
<1>0. /\ "poll" \in Events /\ "pollVer" \in Events /\ "poll" \notin Acks /\ "pollVer" \notin Acks
      /\ Acks \subseteq Events
  BY DEF Events, Commands, Acks
<1>1. CASE v = "none"
  <2>1. bus' = With(b, "pollVer") /\ queuedCmds' = n /\ UNCHANGED <<tx, pending>>
    BY <1>1 DEF RunCommands
  <2> QED BY <2>1, <1>0, NothingSent DEF With
<1>2. CASE v = "bad"
  <2>1. bus' = b /\ queuedCmds' = n /\ UNCHANGED <<tx, pending>> BY <1>2 DEF RunCommands
  <2> QED BY <2>1, NothingSent
<1>3. CASE v = "good"
  <2>1. PICK k \in 0..n :
          /\ bus' = [b EXCEPT !["poll"] = @ + k] /\ queuedCmds' = 0
          /\ IF k = 0 \/ IsAllowed("CFG")
               THEN Send([i \in 1..k |-> "CFG"])
               ELSE RetryLater(k) /\ UNCHANGED <<tx, pending>>
    BY <1>3 DEF RunCommands
  <2>2. k \in Nat OBVIOUS
  <2>3. bus' \in [Events -> Nat] /\ \A e \in Acks : bus'[e] = b[e] BY <2>1, <2>2, <1>0
  <2>4. SendStep
    <3>1. CASE Send([i \in 1..k |-> "CFG"])
      <4> DEFINE ms == [i \in 1..k |-> "CFG"]
      <4>1. ms \in Seq(Messages) /\ \A j \in 1..Len(ms) : ms[j] = "CFG" BY <2>2, ManyMessages
      <4> HIDE DEF ms
      <4>2. Send(ms) BY <3>1 DEF ms
      <4>3. \A j \in 1..Len(ms) : ms[j] # "RATE" BY <4>1
      <4> QED BY <4>1, <4>2, <4>3, SendIsSendStep
    <3>2. CASE UNCHANGED <<tx, pending>> BY <3>2, NothingSent
    <3> QED BY <2>1, <3>1, <3>2
  <2> QED BY <2>1, <2>3, <2>4
<1> QED BY <1>1, <1>2, <1>3

\* Taking an event from the bus and putting another on it.
LEMMA EventTaken ==
    ASSUME UbloxTypeOK, NEW e \in Events, bus[e] > 0
    PROVE  /\ Without(e) \in [Events -> Nat]
           /\ \A x \in Events : Without(e)[x] <= bus[x]
           /\ \A x \in Events : x # e => Without(e)[x] = bus[x]
<1>1. bus \in [Events -> Nat] /\ bus[e] - 1 \in Nat BY DEF UbloxTypeOK
<1> QED BY <1>1 DEF Without

LEMMA EventAdded ==
    ASSUME NEW b \in [Events -> Nat], NEW e \in Events
    PROVE  With(b, e) \in [Events -> Nat] /\ \A x \in Events : x # e => With(b, e)[x] = b[x]
BY DEF With

\* The steps that neither change the state of the driver nor bring an acknowledgement.
LEMMA UbloxInvKept ==
    ASSUME UbloxIInv, SendStep, BusStep, version' \in {"none", "good", "bad"}, queuedCmds' \in Nat,
           UNCHANGED <<init_state, accepted, configured>>
    PROVE  UbloxIInv'
<1>1. UbloxTypeOK' BY DEF UbloxIInv, UbloxTypeOK, SendStep, BusStep
<1>2. AcksAreGiven' BY DEF UbloxIInv, AcksAreGiven, SendStep, BusStep
<1>3. StateIsEarned' BY DEF UbloxIInv, StateIsEarned
<1> QED BY <1>1, <1>2, <1>3 DEF UbloxIInv

LEMMA UbloxInit == Init => UbloxIInv
<1> SUFFICES ASSUME Init PROVE UbloxIInv OBVIOUS
<1>1. UbloxTypeOK
  <2>1. <<"PRT">> \in Seq(Messages) BY DEF Messages, Acked
  <2> QED BY <2>1 DEF Init, UbloxTypeOK, States
<1>2. AcksAreGiven
  <2>1. ~OnLine("RATE") BY DEF Init, OnLine
  <2>2. \A m \in Acked : bus[Ack(m)] = 0 BY AckIsEvent DEF Init, Acks
  <2> QED BY <2>1, <2>2 DEF AcksAreGiven, Init
<1>3. StateIsEarned BY DEF Init, StateIsEarned
<1> QED BY <1>1, <1>2, <1>3 DEF UbloxIInv

LEMMA UbloxStep == ASSUME UbloxIInv, [Next]_vars PROVE UbloxIInv'
<1>a. UbloxTypeOK /\ AcksAreGiven /\ StateIsEarned BY DEF UbloxIInv
<1>b. /\ version \in {"none", "good", "bad"} /\ queuedCmds \in Nat /\ bus \in [Events -> Nat]
      /\ accepted \subseteq Acked /\ init_state \in States
  BY <1>a DEF UbloxTypeOK
<1>e. /\ {"poll", "pollVer", "set", "dependent", "gnss", "nak", "config", "good", "bad"} \subseteq Events
      /\ \A m \in Acked : Ack(m) \in Events
           /\ Ack(m) \notin {"poll", "pollVer", "set", "dependent", "gnss", "nak", "config", "good", "bad"}
  BY AckIsEvent DEF Events, Commands, Acks
<1>w. ASSUME NEW e \in Events, bus[e] > 0, NEW f \in Events, \A m \in Acked : Ack(m) # f
      PROVE  /\ bus' = Without(e) => BusStep
             /\ bus' = With(Without(e), f) => BusStep
  <2>1. /\ Without(e) \in [Events -> Nat] /\ \A x \in Events : Without(e)[x] <= bus[x]
    BY <1>a, <1>w, EventTaken
  <2>2. /\ With(Without(e), f) \in [Events -> Nat]
        /\ \A x \in Events : x # f => With(Without(e), f)[x] = Without(e)[x]
    BY <2>1, EventAdded
  <2>3. \A m \in Acked : Without(e)[Ack(m)] \in Nat /\ bus[Ack(m)] \in Nat BY <1>b, <1>e, <2>1
  <2> QED BY <1>w, <1>e, <2>1, <2>2, <2>3 DEF BusStep
<1>1. ASSUME NEW e \in Commands, HandlePoll(e) PROVE UbloxIInv'
  <2>1. SendStep BY <1>1, <1>a, EnqueueIsSendStep DEF HandlePoll, Messages, Acked
  <2>2. BusStep BY <1>1, <1>e, <1>w DEF HandlePoll, Handle
  <2> QED BY <1>1, <2>1, <2>2, <1>b, UbloxInvKept DEF HandlePoll
<1>2. CASE HandleSet
  <2>1. SendStep BY <1>2, <1>a, EnqueueIsSendStep DEF HandleSet, Messages, Acked
  <2>2. BusStep BY <1>2, <1>e, <1>w DEF HandleSet, Handle
  <2> QED BY <1>2, <2>1, <2>2, <1>b, UbloxInvKept DEF HandleSet
<1>r. ASSUME NEW n \in Nat, NEW v \in {"none", "good", "bad"}, NEW e \in Events, bus[e] > 0,
             RunCommands(n, v, Without(e))
      PROVE  SendStep /\ BusStep /\ queuedCmds' \in Nat
  <2>1. /\ Without(e) \in [Events -> Nat] /\ \A x \in Events : Without(e)[x] <= bus[x]
    BY <1>a, <1>r, EventTaken
  <2>2. /\ SendStep /\ queuedCmds' \in Nat /\ bus' \in [Events -> Nat]
        /\ \A x \in Acks : bus'[x] = Without(e)[x]
    BY <1>a, <1>r, <2>1, CommandsRun
  <2>3. \A m \in Acked : bus'[Ack(m)] = Without(e)[Ack(m)] /\ Without(e)[Ack(m)] <= bus[Ack(m)]
                         /\ Without(e)[Ack(m)] \in Nat /\ bus[Ack(m)] \in Nat
    BY <2>1, <2>2, <1>b, <1>e, AckIsEvent
  <2> QED BY <2>2, <2>3 DEF BusStep
<1>3. CASE HandleDependent
  <2>1. bus["dependent"] > 0 /\ RunCommands(queuedCmds + 1, version, Without("dependent"))
    BY <1>3 DEF HandleDependent, Handle
  <2>2. "dependent" \in Events /\ queuedCmds + 1 \in Nat BY <1>b, <1>e
  <2>3. SendStep /\ BusStep /\ queuedCmds' \in Nat BY <2>1, <2>2, <1>b, <1>r
  <2> QED BY <1>3, <2>3, <1>b, UbloxInvKept DEF HandleDependent
<1>4. CASE HandleGnss
  <2>1. bus["gnss"] > 0 /\ UNCHANGED <<init_state, version, accepted, configured>>
    BY <1>4 DEF HandleGnss, Handle
  <2>2. "gnss" \in Events /\ "poll" \in Events /\ queuedCmds + 1 \in Nat BY <1>b, <1>e
  <2>3. SendStep /\ BusStep /\ queuedCmds' \in Nat
    <3>1. CASE version = "none"
      <4>1. RunCommands(queuedCmds + 1, version, Without("gnss")) BY <1>4, <3>1 DEF HandleGnss
      <4> QED BY <4>1, <2>1, <2>2, <1>b, <1>r
    <3>2. CASE version = "bad"
      <4>1. UNCHANGED <<bus, queuedCmds, tx, pending>> BY <1>4, <3>2 DEF HandleGnss
      <4> QED BY <4>1, <1>a, <1>b, NothingSent DEF BusStep
    <3>3. CASE version = "good"
      <4>1. bus' = With(Without("gnss"), "poll") /\ Enqueue("CFG") /\ queuedCmds' = queuedCmds
        BY <1>4, <3>3 DEF HandleGnss
      <4>2. BusStep BY <4>1, <2>1, <2>2, <1>e, <1>w
      <4> QED BY <4>1, <4>2, <1>a, <1>b, EnqueueIsSendStep DEF Messages, Acked
    <3> QED BY <3>1, <3>2, <3>3, <1>b
  <2> QED BY <2>1, <2>3, <1>b, UbloxInvKept
<1>5. ASSUME NEW v \in {"good", "bad"}, HandleVersion(v) PROVE UbloxIInv'
  <2>1. bus[v] > 0 /\ UNCHANGED <<init_state, accepted, configured>> /\ v \in Events
    BY <1>5, <1>e DEF HandleVersion, Handle
  <2>2. CASE version = "none"
    <3>1. version' = v /\ RunCommands(queuedCmds, v, Without(v)) BY <1>5, <2>2 DEF HandleVersion
    <3>2. SendStep /\ BusStep /\ queuedCmds' \in Nat BY <3>1, <2>1, <1>b, <1>r
    <3> QED BY <2>1, <3>1, <3>2, UbloxInvKept
  <2>3. CASE version # "none"
    <3>1. bus' = Without(v) /\ UNCHANGED <<version, queuedCmds, tx, pending>>
      BY <1>5, <2>3 DEF HandleVersion, KeepWaiting
    <3>2. BusStep BY <2>1, <3>1, <1>e, <1>w
    <3> QED BY <2>1, <3>1, <3>2, <1>a, <1>b, NothingSent, UbloxInvKept
  <2> QED BY <2>2, <2>3
<1>6. CASE HandleConfigRound
  <2>1. SendStep BY <1>6, <1>a, EnqueueIsSendStep DEF HandleConfigRound, Messages, Acked
  <2>2. BusStep BY <1>6, <1>e, <1>w DEF HandleConfigRound, Handle
  <2> QED BY <1>6, <2>1, <2>2, <1>b, UbloxInvKept DEF HandleConfigRound
<1>7. CASE HandleConfigReady
  <2>1. BusStep BY <1>7, <1>e, <1>w DEF HandleConfigReady, Handle
  <2> QED BY <1>7, <2>1, <1>a, <1>b, NothingSent, UbloxInvKept DEF HandleConfigReady
<1>8. CASE HandleConfigAll
  <2>1. /\ bus["config"] > 0 /\ init_state = "ReceivedRateAck" /\ init_state' = "Ready"
        /\ configured' = configured + 1 /\ UNCHANGED <<version, accepted>>
        /\ queuedCmds' \in Nat
    BY <1>8, <1>b DEF HandleConfigAll, Handle
  <2>2. PICK k \in {0, 1} :
          /\ tx' = tx \o <<"CFG", "VER">> \o [i \in 1..k |-> "CFG"]
          /\ pending' = [pending EXCEPT !["CFG"] = @ + 1 + k]
          /\ bus' = LET b == With(Without("config"), "poll")
                    IN IF version = "none" THEN With(b, "pollVer")
                                           ELSE [b EXCEPT !["poll"] = @ + k]
    BY <1>8 DEF HandleConfigAll
  <2>3. k \in Nat OBVIOUS
  <2>4. "PRT" \in accepted /\ "RATE" \in accepted /\ configured = 0 BY <2>1, <1>a DEF StateIsEarned
  <2>5. tx' \in Seq(Messages)
    <3>1. tx \in Seq(Messages) /\ <<"CFG", "VER">> \in Seq(Messages)
      BY <1>a DEF UbloxTypeOK, Messages, Acked
    <3>2. [i \in 1..k |-> "CFG"] \in Seq(Messages) BY <2>3, ManyMessages
    <3> QED BY <2>2, <3>1, <3>2, ConcatProperties
  <2>6. pending' \in [Acked -> Nat] BY <2>2, <2>3, <1>a DEF UbloxTypeOK, Acked
  <2>7. bus' \in [Events -> Nat] /\ \A x \in Acks : bus'[x] <= bus[x]
    <3> DEFINE b == With(Without("config"), "poll")
    <3>1. "config" \in Events /\ "poll" \in Events /\ "pollVer" \in Events
          /\ "poll" \notin Acks /\ "pollVer" \notin Acks /\ Acks \subseteq Events
      BY <1>e DEF Acks, Events
    <3>2. Without("config") \in [Events -> Nat] /\ \A x \in Events : Without("config")[x] <= bus[x]
      BY <2>1, <3>1, <1>a, EventTaken
    <3>3. b \in [Events -> Nat] /\ \A x \in Acks : b[x] <= bus[x] BY <3>1, <3>2, EventAdded
    <3> HIDE DEF b
    <3>4. bus' = With(b, "pollVer") \/ bus' = [b EXCEPT !["poll"] = @ + k] BY <2>2 DEF b
    <3>5. CASE bus' = With(b, "pollVer") BY <3>1, <3>3, <3>5, EventAdded
    <3>6. CASE bus' = [b EXCEPT !["poll"] = @ + k] BY <3>1, <3>3, <3>6, <2>3
    <3> QED BY <3>4, <3>5, <3>6
  <2>8. UbloxTypeOK' BY <2>1, <2>5, <2>6, <2>7, <1>a DEF UbloxTypeOK, States
  <2>9. AcksAreGiven'
    <3>1. \A m \in Acked : bus'[Ack(m)] <= bus[Ack(m)] /\ bus'[Ack(m)] \in Nat /\ bus[Ack(m)] \in Nat
      BY <2>7, <1>b, AckIsEvent
    <3> QED BY <2>1, <2>4, <3>1, <1>a DEF AcksAreGiven
  <2>10. StateIsEarned' BY <2>1, <2>4 DEF StateIsEarned
  <2> QED BY <2>8, <2>9, <2>10 DEF UbloxIInv
<1>9. ASSUME NEW m \in Acked, HandleAck(m) PROVE UbloxIInv'
  <2>1. PICK r \in ReadsAs(m) :
          /\ IF IsPending(r)
               THEN pending' = [pending EXCEPT ![r] = @ - 1] /\ UNCHANGED unrequested
               ELSE unrequested' = (unrequested \/ pending[m] > 0) /\ UNCHANGED pending
          /\ init_state' = StateAfterAck(r)
          /\ bus' = IF init_state # "Ready" /\ StartsRound(r)
                      THEN With(Without(Ack(m)), "config")
                      ELSE Without(Ack(m))
    BY <1>9 DEF HandleAck
  <2>2. /\ bus[Ack(m)] > 0 /\ UNCHANGED <<tx, version, queuedCmds, accepted, configured>>
    BY <1>9 DEF HandleAck, Handle
  <2>3. m \in accepted BY <2>2, <1>a DEF AcksAreGiven
  <2>4. r \in accepted \cup {"garbage"} BY <2>3 DEF ReadsAs
  <2>5. pending' \in [Acked -> Nat]
    <3>1. CASE IsPending(r)
      <4>1. r \in Acked /\ pending[r] - 1 \in Nat BY <3>1, <1>a DEF UbloxTypeOK
      <4> QED BY <2>1, <3>1, <4>1, <1>a DEF UbloxTypeOK
    <3>2. CASE ~IsPending(r) BY <2>1, <3>2, <1>a DEF UbloxTypeOK
    <3> QED BY <3>1, <3>2
  <2>6. BusStep BY <2>1, <2>2, <1>e, <1>w
  <2>7. init_state' \in States BY <2>1, <1>b DEF States
  <2>8. UbloxTypeOK' BY <2>2, <2>5, <2>6, <2>7, <1>a DEF UbloxTypeOK, BusStep
  <2>9. AcksAreGiven' BY <2>2, <2>6, <1>a DEF AcksAreGiven, BusStep, OnLine
  <2>10. StateIsEarned'
    <3>1. "RATE" \in accepted => "PRT" \in accepted BY <1>a DEF AcksAreGiven
    <3>2. CASE init_state = "Ready" BY <2>1, <2>2, <3>2, <1>a DEF StateIsEarned
    <3>3. CASE init_state # "Ready"
      <4>1. configured' = 0 /\ init_state' # "Ready"
        BY <2>1, <2>2, <3>3, <1>a DEF StateIsEarned
      <4>2. init_state' # "Connecting" => "PRT" \in accepted
        BY <2>1, <2>4, <3>1, <3>3, <1>a DEF StateIsEarned
      <4>3. init_state' = "ReceivedRateAck" => "RATE" \in accepted
        BY <2>1, <2>4, <3>3, <1>a DEF StateIsEarned
      <4> QED BY <4>1, <4>2, <4>3, <2>2 DEF StateIsEarned
    <3> QED BY <3>2, <3>3
  <2> QED BY <2>8, <2>9, <2>10 DEF UbloxIInv
<1>10. CASE HandleNak
  <2>1. PICK r \in ReadsAs("CFG") :
          pending' = IF IsPending(r) THEN [pending EXCEPT ![r] = @ - 1] ELSE pending
    BY <1>10 DEF HandleNak
  <2>2. /\ bus["nak"] > 0 /\ bus' = Without("nak")
        /\ UNCHANGED <<init_state, tx, version, queuedCmds, accepted, configured>>
    BY <1>10 DEF HandleNak, Handle
  <2>3. pending' \in [Acked -> Nat]
    <3>1. CASE IsPending(r)
      <4>1. r \in Acked /\ pending[r] - 1 \in Nat BY <3>1, <1>a DEF UbloxTypeOK
      <4> QED BY <2>1, <3>1, <4>1, <1>a DEF UbloxTypeOK
    <3>2. CASE ~IsPending(r) BY <2>1, <3>2, <1>a DEF UbloxTypeOK
    <3> QED BY <3>1, <3>2
  <2>4. SendStep BY <2>2, <2>3, <1>a DEF SendStep, OnLine, UbloxTypeOK
  <2>5. BusStep BY <2>2, <1>e, <1>w
  <2> QED BY <2>2, <2>4, <2>5, <1>b, UbloxInvKept
<1>11. CASE ReceiverAnswers
  <2> DEFINE m == Head(tx)
  <2>1. /\ tx # <<>> /\ tx' = Tail(tx)
        /\ UNCHANGED <<init_state, pending, version, queuedCmds, configured>>
        /\ \/ /\ m = "VER" /\ accepted' = accepted
              /\ \E v \in {"good", "bad"} : bus' = With(bus, v)
           \/ m # "VER" /\ accepted' = accepted \cup {m} /\ bus' = With(bus, Ack(m))
    BY <1>11 DEF ReceiverAnswers
  <2>2. /\ tx' \in Seq(Messages) /\ m \in Messages /\ OnLine(m) /\ (OnLine("RATE")' => OnLine("RATE"))
    BY <2>1, <1>a, TakenMessage
  <2> HIDE DEF m
  <2>3. CASE m = "VER"
    <3>1. accepted' = accepted BY <2>1, <2>3
    <3>2. PICK v \in {"good", "bad"} : bus' = With(bus, v) BY <2>1, <2>3
    <3>3. bus' \in [Events -> Nat] /\ \A x \in Events : x # v => bus'[x] = bus[x]
      BY <3>2, <1>b, <1>e, EventAdded
    <3>4. BusStep BY <3>3, <1>e DEF BusStep
    <3>5. SendStep BY <2>1, <2>2, <1>a DEF SendStep, UbloxTypeOK
    <3> QED BY <2>1, <3>1, <3>4, <3>5, <1>b, UbloxInvKept
  <2>4. CASE m # "VER"
    <3>1. accepted' = accepted \cup {m} /\ bus' = With(bus, Ack(m)) /\ m \in Acked
      BY <2>1, <2>2, <2>4 DEF Messages
    <3>2. Ack(m) \in Events BY <3>1, <1>e
    <3>3. bus' \in [Events -> Nat] /\ \A x \in Events : x # Ack(m) => bus'[x] = bus[x]
      BY <3>1, <3>2, <1>b, EventAdded
    <3>4. UbloxTypeOK' BY <2>1, <2>2, <3>1, <3>3, <1>a DEF UbloxTypeOK
    <3>5. \A x \in Acked : Ack(x) = Ack(m) => x = m BY <3>1, AckIsEvent DEF Acked
    <3>6. AcksAreGiven'
      <4>1. \A x \in Acked : bus'[Ack(x)] > 0 => x \in accepted'
        BY <3>1, <3>3, <3>5, <1>a, <1>e DEF AcksAreGiven
      <4>2. m = "RATE" => "PRT" \in accepted BY <2>2, <1>a DEF AcksAreGiven
      <4> QED BY <4>1, <4>2, <2>2, <3>1, <1>a DEF AcksAreGiven
    <3>7. StateIsEarned' BY <2>1, <3>1, <1>a DEF StateIsEarned
    <3> QED BY <3>4, <3>6, <3>7 DEF UbloxIInv
  <2> QED BY <2>3, <2>4
<1>12. CASE ReceiverRefuses
  <2>1. /\ tx # <<>> /\ tx' = Tail(tx) /\ bus' = With(bus, "nak")
        /\ UNCHANGED <<init_state, pending, version, queuedCmds, accepted, configured>>
    BY <1>12 DEF ReceiverRefuses
  <2>2. tx' \in Seq(Messages) /\ (OnLine("RATE")' => OnLine("RATE")) BY <2>1, <1>a, TakenMessage
  <2>3. bus' \in [Events -> Nat] /\ \A x \in Events : x # "nak" => bus'[x] = bus[x]
    BY <2>1, <1>b, <1>e, EventAdded
  <2>4. BusStep BY <2>3, <1>e DEF BusStep
  <2>5. SendStep BY <2>1, <2>2, <1>a DEF SendStep, UbloxTypeOK
  <2> QED BY <2>1, <2>4, <2>5, <1>b, UbloxInvKept
<1>13. CASE LineLoses
  <2>1. /\ tx # <<>> /\ tx' = Tail(tx)
        /\ UNCHANGED <<init_state, pending, version, queuedCmds, bus, accepted, configured>>
    BY <1>13 DEF LineLoses
  <2>2. tx' \in Seq(Messages) /\ (OnLine("RATE")' => OnLine("RATE")) BY <2>1, <1>a, TakenMessage
  <2>3. BusStep BY <2>1, <1>b DEF BusStep
  <2>4. SendStep BY <2>1, <2>2, <1>a DEF SendStep, UbloxTypeOK
  <2> QED BY <2>1, <2>3, <2>4, <1>b, UbloxInvKept
<1>14. ASSUME NEW e \in Commands, Command(e) PROVE UbloxIInv'
  <2>1. /\ bus' = With(bus, e)
        /\ UNCHANGED <<init_state, pending, tx, version, queuedCmds, accepted, configured>>
    BY <1>14 DEF Command
  <2>2. e \in Events /\ \A m \in Acked : Ack(m) # e BY <1>e DEF Commands
  <2>3. bus' \in [Events -> Nat] /\ \A x \in Events : x # e => bus'[x] = bus[x]
    BY <2>1, <2>2, <1>b, EventAdded
  <2>4. BusStep BY <2>2, <2>3, <1>e DEF BusStep
  <2> QED BY <2>1, <2>4, <1>a, <1>b, NothingSent, UbloxInvKept
<1>15. CASE ReadFails \/ TimerExpires \/ TimerHandler \/ UNCHANGED vars
  <2>1. UNCHANGED <<init_state, pending, tx, version, queuedCmds, bus, accepted, configured>>
    BY <1>15 DEF ReadFails, TimerExpires, TimerHandler, vars
  <2>2. BusStep BY <2>1, <1>b DEF BusStep
  <2> QED BY <2>1, <2>2, <1>a, <1>b, NothingSent, UbloxInvKept
<1> QED BY <1>1, <1>2, <1>3, <1>4, <1>5, <1>6, <1>7, <1>8, <1>9, <1>10, <1>11, <1>12, <1>13, <1>14,
        <1>15 DEF Next, Handlers

-----------------------------------------------------------------------------
(* The driver calls the receiver ready only after port and rate were        *)
(* acknowledged, although the acknowledgements reach SerialUblox by         *)
(* reference and may be read as others (serialublox.cpp:58), are           *)
(* reordered by the pool or lost, and the full configuration is sent once.  *)
THEOREM UbloxReadyMeansSetUp == Spec => []ReadyMeansSetUp
<1>1. UbloxIInv => ReadyMeansSetUp
  <2> SUFFICES ASSUME UbloxIInv PROVE ReadyMeansSetUp OBVIOUS
  <2>1. Count(tx, "RATE") > 0 => "PRT" \in accepted
    BY CountedIsOnLine DEF UbloxIInv, UbloxTypeOK, AcksAreGiven
  <2>2. init_state = "Ready" => {"PRT", "RATE"} \subseteq accepted BY DEF UbloxIInv, StateIsEarned
  <2>3. configured <= 1 /\ (configured = 1 <=> init_state = "Ready") BY DEF UbloxIInv, StateIsEarned
  <2> QED BY <2>1, <2>2, <2>3 DEF ReadyMeansSetUp
<1> QED BY <1>1, UbloxInit, UbloxStep, PTL DEF Spec

-----------------------------------------------------------------------------
(* MessageProcessor: the decoding of the receiver's messages.               *)

\* A handler's fields lie in a payload of a length, and apart from one another but for some bytes.
Fits(fields, len, twice) ==
    /\ \A f \in fields : Bytes(f) \subseteq 0..(len - 1)
    /\ \A f, g \in fields : f # g => Bytes(f) \cap Bytes(g) \subseteq twice

\* Fields fit when each ends where the payload does or before, and of two fields one ends before the
\* other begins.
LEMMA FieldsFit ==
    ASSUME NEW fields, NEW len \in Nat, NEW twice,
           \A f \in fields : f[1] \in Nat /\ f[2] \in Nat /\ f[1] + f[2] <= len,
           \A f, g \in fields : f = g \/ f[1] + f[2] <= g[1] \/ g[1] + g[2] <= f[1]
    PROVE  Fits(fields, len, twice)
<1>1. ASSUME NEW f \in fields PROVE Bytes(f) \subseteq 0..(len - 1) BY DEF Bytes
<1>2. ASSUME NEW f \in fields, NEW g \in fields, f # g PROVE Bytes(f) \cap Bytes(g) = {} BY <1>2 DEF Bytes
<1> QED BY <1>1, <1>2 DEF Fits

\* TIM-TP: a field and its second are of the same byte, all others lie apart.
LEMMA PulseTimeFits == Fits(UBXTimTP, 16, TakenTwice("TIM_TP"))
<1> DEFINE first == Each({0, 4, 8}, 4) \cup Each({12}, 2) \cup Each({14}, 1)
           second == <<14, 1, 2>>
<1>1. UBXTimTP = first \cup {second} BY DEF UBXTimTP, SecondField
<1>2. Fits(first, 16, {14}) BY FieldsFit DEF Each, Field
<1>3. Bytes(second) = {14} BY DEF Bytes
<1> HIDE DEF first, second
<1>4. TakenTwice("TIM_TP") = {14} BY DEF TakenTwice
<1> QED BY <1>1, <1>2, <1>3, <1>4 DEF Fits

\* The messages of one length: their handlers' tables.
LEMMA FixedFieldsFit ==
    ASSUME NEW m \in Handled \ {"NAV_SVINFO", "NAV_SAT", "CFG_GNSS", "MON_VER"}, NEW len \in PayloadLengths[m]
    PROVE  Fits(handlerLookup(m, len), len, TakenTwice(m))
<1>1. CASE m = "NAV_STATUS"
  <2>1. len = 16 /\ handlerLookup(m, len) = UBXNavStatus BY <1>1 DEF PayloadLengths, handlerLookup
  <2> QED BY <2>1, FieldsFit DEF UBXNavStatus, Each, Field
<1>2. CASE m = "NAV_DOP"
  <2>1. len = 18 /\ handlerLookup(m, len) = UBXNavDOP BY <1>2 DEF PayloadLengths, handlerLookup
  <2> QED BY <2>1, FieldsFit DEF UBXNavDOP, Each, Field
<1>3. CASE m = "NAV_TIMEGPS"
  <2>1. len = 16 /\ handlerLookup(m, len) = UBXNavTimeGPS BY <1>3 DEF PayloadLengths, handlerLookup
  <2> QED BY <2>1, FieldsFit DEF UBXNavTimeGPS, Each, Field
<1>4. CASE m = "NAV_TIMEUTC"
  <2>1. len = 20 /\ handlerLookup(m, len) = UBXNavTimeUTC BY <1>4 DEF PayloadLengths, handlerLookup
  <2> QED BY <2>1, FieldsFit DEF UBXNavTimeUTC, Each, Field
<1>5. CASE m = "NAV_CLOCK"
  <2>1. len = 20 /\ handlerLookup(m, len) = UBXNavClock BY <1>5 DEF PayloadLengths, handlerLookup
  <2> QED BY <2>1, FieldsFit DEF UBXNavClock, Each, Field
<1>6. CASE m = "NAV_POSLLH"
  <2>1. len = 28 /\ handlerLookup(m, len) = UBXNavPosLLH BY <1>6 DEF PayloadLengths, handlerLookup
  <2> QED BY <2>1, FieldsFit DEF UBXNavPosLLH, Each, Field
<1>7. CASE m = "CFG_ANT"
  <2>1. len = 4 /\ handlerLookup(m, len) = UBXCfgAnt BY <1>7 DEF PayloadLengths, handlerLookup
  <2> QED BY <2>1, FieldsFit DEF UBXCfgAnt, Each, Field
<1>8. CASE m = "CFG_NAVX5"
  <2>1. len = 40 /\ handlerLookup(m, len) = UBXCfgNavX5 BY <1>8 DEF PayloadLengths, handlerLookup
  <2> QED BY <2>1, FieldsFit DEF UBXCfgNavX5, Each, Field
<1>9. CASE m = "CFG_NAV5"
  <2>1. len = 36 /\ handlerLookup(m, len) = UBXCfgNav5 BY <1>9 DEF PayloadLengths, handlerLookup
  <2> QED BY <2>1, FieldsFit DEF UBXCfgNav5, Each, Field
<1>10. CASE m = "CFG_TP5"
  <2>1. len = 32 /\ handlerLookup(m, len) = UBXCfgTP5 BY <1>10 DEF PayloadLengths, handlerLookup
  <2> QED BY <2>1, FieldsFit DEF UBXCfgTP5, Each, Field
<1>11. CASE m = "CFG_MSG"
  <2>1. len = 8 /\ handlerLookup(m, len) = UBXCfgMSG BY <1>11 DEF PayloadLengths, handlerLookup
  <2> QED BY <2>1, FieldsFit DEF UBXCfgMSG, Each, Field
<1>12. CASE m = "MON_RXBUF"
  <2>1. len = 24 /\ handlerLookup(m, len) = UBXMonRx BY <1>12 DEF PayloadLengths, handlerLookup
  <2> QED BY <2>1, FieldsFit DEF UBXMonRx, Each, Field
<1>13. CASE m = "MON_TXBUF"
  <2>1. len = 28 /\ handlerLookup(m, len) = UBXMonTx BY <1>13 DEF PayloadLengths, handlerLookup
  <2> QED BY <2>1, FieldsFit DEF UBXMonTx, UBXMonRx, Each, Field
<1>14. CASE m = "MON_HW"
  <2>1. len = 60 /\ handlerLookup(m, len) = UBXMonHW BY <1>14 DEF PayloadLengths, handlerLookup
  <2> QED BY <2>1, FieldsFit DEF UBXMonHW, Each, Field
<1>15. CASE m = "MON_HW2"
  <2>1. len = 28 /\ handlerLookup(m, len) = UBXMonHW2 BY <1>15 DEF PayloadLengths, handlerLookup
  <2> QED BY <2>1, FieldsFit DEF UBXMonHW2, Each, Field
<1>16. CASE m = "TIM_TP"
  <2>1. len = 16 /\ handlerLookup(m, len) = UBXTimTP BY <1>16 DEF PayloadLengths, handlerLookup
  <2> QED BY <1>16, <2>1, PulseTimeFits
<1>17. CASE m = "TIM_TM2"
  <2>1. len = 28 /\ handlerLookup(m, len) = UBXTimTM2 BY <1>17 DEF PayloadLengths, handlerLookup
  <2> QED BY <2>1, FieldsFit DEF UBXTimTM2, Each, Field
<1> QED BY <1>1, <1>2, <1>3, <1>4, <1>5, <1>6, <1>7, <1>8, <1>9, <1>10, <1>11, <1>12, <1>13, <1>14, <1>15,
           <1>16, <1>17 DEF Handled, PayloadLengths

\* The blocks that a handler counts are those the receiver sent.
LEMMA BlocksSent ==
    /\ \A n \in 0..3 : Blocks(8 + 12 * n, 8, 12) = n
    /\ \A n \in 0..3 : Blocks(4 + 8 * n, 4, 8) = n
<1>1. SizeT = 65536 BY DEF SizeT
<1>2. 8 + 12 * 0 - 8 = 0 /\ 8 + 12 * 1 - 8 = 12 /\ 8 + 12 * 2 - 8 = 24 /\ 8 + 12 * 3 - 8 = 36 OBVIOUS
<1>3. 4 + 8 * 0 - 4 = 0 /\ 4 + 8 * 1 - 4 = 8 /\ 4 + 8 * 2 - 4 = 16 /\ 4 + 8 * 3 - 4 = 24 OBVIOUS
<1>4. \A n \in 0..3 : n = 0 \/ n = 1 \/ n = 2 \/ n = 3 OBVIOUS
<1>5. /\ 0 % 65536 = 0 /\ 12 % 65536 = 12 /\ 24 % 65536 = 24 /\ 36 % 65536 = 36
      /\ 8 % 65536 = 8 /\ 16 % 65536 = 16
  OBVIOUS
<1>6. 0 \div 12 = 0 /\ 12 \div 12 = 1 /\ 24 \div 12 = 2 /\ 36 \div 12 = 3 OBVIOUS
<1>7. 0 \div 8 = 0 /\ 8 \div 8 = 1 /\ 16 \div 8 = 2 /\ 24 \div 8 = 3 OBVIOUS
<1> QED BY <1>1, <1>2, <1>3, <1>4, <1>5, <1>6, <1>7 DEF Blocks

LEMMA BlockFieldsFit ==
    ASSUME NEW m \in {"NAV_SVINFO", "NAV_SAT", "CFG_GNSS"}, NEW len \in PayloadLengths[m]
    PROVE  Fits(handlerLookup(m, len), len, TakenTwice(m))
<1>1. CASE m = "NAV_SVINFO"
  <2>1. PICK n \in 0..3 : len = 8 + 12 * n BY <1>1 DEF PayloadLengths
  <2>2. handlerLookup(m, len) = UBXNavSVinfo(len) BY <1>1 DEF handlerLookup
  <2>3. Blocks(len, 8, 12) = n BY <2>1, BlocksSent
  <2>4. len \in Nat BY <2>1
  <2> DEFINE S == UBXNavSVinfo(len)
             Fixed(f) == (f[1] = 0 /\ f[2] = 4) \/ (f[1] \in {4, 5} /\ f[2] = 1)
             Block(f, i) ==
                \/ f[1] \in {9 + 12 * i, 10 + 12 * i, 11 + 12 * i, 12 + 12 * i, 13 + 12 * i} /\ f[2] = 1
                \/ f[1] = 14 + 12 * i /\ f[2] = 2
                \/ f[1] = 16 + 12 * i /\ f[2] = 4
  <2>5. ASSUME NEW f \in S PROVE f = <<f[1], f[2], 1>> /\ (Fixed(f) \/ \E i \in 0..(n - 1) : Block(f, i))
    <3>1. CASE f \in Each({0}, 4) \cup Each({4, 5}, 1)
      <4>2. CASE f \in Each({0}, 4) BY <4>2 DEF Each, Field
      <4>3. CASE f \in Each({4, 5}, 1) BY <4>3 DEF Each, Field
      <4> QED BY <3>1, <4>2, <4>3
    <3>2. CASE f \notin Each({0}, 4) \cup Each({4, 5}, 1)
      <4>1. PICK k \in {8 + i * 12 : i \in 0..(n - 1)} :
              f \in {Field(k + 1, 1), Field(k + 2, 1), Field(k + 3, 1), Field(k + 4, 1), Field(k + 5, 1),
                    Field(k + 6, 2), Field(k + 8, 4)}
        BY <2>3, <3>2 DEF UBXNavSVinfo
      <4>2. PICK i \in 0..(n - 1) : k = 8 + i * 12 BY <4>1
      <4> QED BY <4>1, <4>2 DEF Field
    <3> QED BY <3>1, <3>2
  <2>6. \A f \in S : f[1] \in Nat /\ f[2] \in Nat /\ f[1] + f[2] <= len BY <2>1, <2>5
  <2>7. \A f, g \in S : f = g \/ f[1] + f[2] <= g[1] \/ g[1] + g[2] <= f[1] BY <2>5
  <2> HIDE DEF S
  <2> QED BY <2>2, <2>4, <2>6, <2>7, FieldsFit DEF S
<1>2. CASE m = "NAV_SAT"
  <2>1. PICK n \in 0..3 : len = 8 + 12 * n BY <1>2 DEF PayloadLengths
  <2>2. handlerLookup(m, len) = UBXNavSat(len) BY <1>2 DEF handlerLookup
  <2>3. Blocks(len, 8, 12) = n BY <2>1, BlocksSent
  <2>4. len \in Nat BY <2>1
  <2> DEFINE S == UBXNavSat(len)
             Fixed(f) == (f[1] = 0 /\ f[2] = 4) \/ (f[1] \in {4, 5} /\ f[2] = 1)
             Block(f, i) ==
                \/ f[1] \in {8 + 12 * i, 9 + 12 * i, 10 + 12 * i, 11 + 12 * i} /\ f[2] = 1
                \/ f[1] \in {12 + 12 * i, 14 + 12 * i} /\ f[2] = 2
                \/ f[1] = 16 + 12 * i /\ f[2] = 4
  <2>5. ASSUME NEW f \in S PROVE f = <<f[1], f[2], 1>> /\ (Fixed(f) \/ \E i \in 0..(n - 1) : Block(f, i))
    <3>1. CASE f \in Each({0}, 4) \cup Each({4, 5}, 1)
      <4>2. CASE f \in Each({0}, 4) BY <4>2 DEF Each, Field
      <4>3. CASE f \in Each({4, 5}, 1) BY <4>3 DEF Each, Field
      <4> QED BY <3>1, <4>2, <4>3
    <3>2. CASE f \notin Each({0}, 4) \cup Each({4, 5}, 1)
      <4>1. PICK k \in {8 + i * 12 : i \in 0..(n - 1)} :
              f \in {Field(k, 1), Field(k + 1, 1), Field(k + 2, 1), Field(k + 3, 1), Field(k + 4, 2),
                    Field(k + 6, 2), Field(k + 8, 4)}
        BY <2>3, <3>2 DEF UBXNavSat
      <4>2. PICK i \in 0..(n - 1) : k = 8 + i * 12 BY <4>1
      <4> QED BY <4>1, <4>2 DEF Field
    <3> QED BY <3>1, <3>2
  <2>6. \A f \in S : f[1] \in Nat /\ f[2] \in Nat /\ f[1] + f[2] <= len BY <2>1, <2>5
  <2>7. \A f, g \in S : f = g \/ f[1] + f[2] <= g[1] \/ g[1] + g[2] <= f[1] BY <2>5
  <2> HIDE DEF S
  <2> QED BY <2>2, <2>4, <2>6, <2>7, FieldsFit DEF S
<1>3. CASE m = "CFG_GNSS"
  <2>1. PICK n \in 0..3 : len = 4 + 8 * n BY <1>3 DEF PayloadLengths
  <2>2. handlerLookup(m, len) = UBXCfgGNSS(len) BY <1>3 DEF handlerLookup
  <2>3. Blocks(len, 4, 8) = n BY <2>1, BlocksSent
  <2>4. len \in Nat BY <2>1
  <2> DEFINE S == UBXCfgGNSS(len)
             Fixed(f) == f[1] \in 0..3 /\ f[2] = 1
             Block(f, i) ==
                \/ f[1] \in {4 + 8 * i, 5 + 8 * i, 6 + 8 * i} /\ f[2] = 1
                \/ f[1] = 8 + 8 * i /\ f[2] = 4
  <2>5. ASSUME NEW f \in S PROVE f = <<f[1], f[2], 1>> /\ (Fixed(f) \/ \E i \in 0..(n - 1) : Block(f, i))
    <3>1. CASE f \in Each(0..3, 1)
      BY <3>1 DEF Each, Field
    <3>2. CASE f \notin Each(0..3, 1)
      <4>1. PICK k \in {8 * i : i \in 0..(n - 1)} :
              f \in {Field(k + 4, 1), Field(k + 5, 1), Field(k + 6, 1), Field(k + 8, 4)}
        BY <2>3, <3>2 DEF UBXCfgGNSS
      <4>2. PICK i \in 0..(n - 1) : k = 8 * i BY <4>1
      <4> QED BY <4>1, <4>2 DEF Field
    <3> QED BY <3>1, <3>2
  <2>6. \A f \in S : f[1] \in Nat /\ f[2] \in Nat /\ f[1] + f[2] <= len BY <2>1, <2>5
  <2>7. \A f, g \in S : f = g \/ f[1] + f[2] <= g[1] \/ g[1] + g[2] <= f[1] BY <2>5
  <2> HIDE DEF S
  <2> QED BY <2>2, <2>4, <2>6, <2>7, FieldsFit DEF S
<1> QED BY <1>1, <1>2, <1>3

LEMMA VersionFieldsFit ==
    ASSUME NEW len \in PayloadLengths["MON_VER"] \ {40}
    PROVE  Fits(UBXMonVer(len), len, TakenTwice("MON_VER"))
<1>1. len \in Nat /\ len >= 70 BY DEF PayloadLengths
<1>2. \A f \in UBXMonVer(len) : f[1] \in 0..(len - 1) /\ f[2] = 1 /\ f = <<f[1], f[2], 1>>
  BY <1>1 DEF UBXMonVer, Each, Field
<1> QED BY <1>1, <1>2, FieldsFit

-----------------------------------------------------------------------------
\* What the two ends of a text lose.
LEMMA WholeSeq == \A C : \A s \in Seq(C) : SubSeq(s, 1, Len(s)) = s
  OBVIOUS

LEMMA SameSequence ==
    \A C : \A s, t \in Seq(C) : Len(s) = Len(t) /\ (\A n \in 1..Len(s) : s[n] = t[n]) => s = t
  OBVIOUS

LEMMA PartOfSeq ==
    \A C : \A s \in Seq(C) : \A a \in 1..(Len(s) + 1), b \in 0..Len(s) :
        a <= b => /\ Len(SubSeq(s, a, b)) = b - a + 1
                  /\ \A n \in 1..(b - a + 1) : SubSeq(s, a, b)[n] = s[n + a - 1]
  OBVIOUS

LEMMA FrontDropped ==
    \A C, K : \A s \in Seq(C) : \A p \in 1..Len(s) :
        s[p] \notin K /\ (\A n \in 1..(p - 1) : s[n] \in K) => DropFront(s, K) = SubSeq(s, p, Len(s))
<1> SUFFICES ASSUME NEW C, NEW s \in Seq(C), NEW K, NEW p \in 1..Len(s), s[p] \notin K,
                    \A n \in 1..(p - 1) : s[n] \in K
             PROVE  DropFront(s, K) = SubSeq(s, p, Len(s))
  OBVIOUS
<1> DEFINE keep == {i \in 1..Len(s) : s[i] \notin K}
<1>1. Len(s) \in Nat OBVIOUS
<1>2. p \in keep /\ \A j \in keep : p <= j BY <1>1
<1>3. \A i \in keep : (\A j \in keep : i <= j) => i = p BY <1>1, <1>2
<1>4. (CHOOSE i \in keep : \A j \in keep : i <= j) = p BY <1>2, <1>3
<1> QED BY <1>2, <1>4 DEF DropFront

LEMMA BackDropped ==
    \A C, K : \A s \in Seq(C) : \A p \in 1..Len(s) :
        s[p] \notin K /\ (\A n \in (p + 1)..Len(s) : s[n] \in K) => DropBack(s, K) = SubSeq(s, 1, p)
<1> SUFFICES ASSUME NEW C, NEW s \in Seq(C), NEW K, NEW p \in 1..Len(s), s[p] \notin K,
                    \A n \in (p + 1)..Len(s) : s[n] \in K
             PROVE  DropBack(s, K) = SubSeq(s, 1, p)
  OBVIOUS
<1> DEFINE keep == {i \in 1..Len(s) : s[i] \notin K}
<1>1. Len(s) \in Nat OBVIOUS
<1>2. p \in keep /\ \A j \in keep : p >= j BY <1>1
<1>3. \A i \in keep : (\A j \in keep : i >= j) => i = p BY <1>1, <1>2
<1>4. (CHOOSE i \in keep : \A j \in keep : i >= j) = p BY <1>2, <1>3
<1> QED BY <1>2, <1>4 DEF DropBack

\* A version in its usual form is what the daemon keeps of the text, and is understood.
LEMMA AnnouncedIsUnderstood ==
    ASSUME NEW text \in Seq(CharKinds), AnnouncesVersion(text)
    PROVE  HasProtVersion(ProtText(text))
<1>1. Len(text) \in Nat OBVIOUS
<1>2. PICK i \in 1..(Len(text) + 1), j \in 1..(Len(text) + 1), k \in 1..(Len(text) + 1) :
        /\ i < j /\ j <= k
        /\ \A n \in 1..(i - 1) : text[n] \in {"sign", "space"}
        /\ IsNumber(SubSeq(text, i, j - 1))
        /\ k > j => text[j] = "dot" /\ IsNumber(SubSeq(text, j + 1, k - 1))
        /\ \A n \in k..Len(text) : text[n] \in {"space", "nul"}
  BY DEF AnnouncesVersion
<1>3. \A n \in i..(j - 1) : text[n] = "digit"
  <2>1. i \in Int /\ j - 1 \in Int /\ Len(SubSeq(text, i, j - 1)) = j - i BY <1>1, <1>2
  <2> SUFFICES ASSUME NEW n \in i..(j - 1) PROVE text[n] = "digit" OBVIOUS
  <2>2. n - i + 1 \in 1..(j - i) /\ SubSeq(text, i, j - 1)[n - i + 1] = text[n] BY <1>1, <1>2, <2>1
  <2> QED BY <1>2, <2>1, <2>2 DEF IsNumber
<1>4. k > j => k > j + 1 /\ \A n \in (j + 1)..(k - 1) : text[n] = "digit"
  <2> SUFFICES ASSUME k > j PROVE k > j + 1 /\ \A n \in (j + 1)..(k - 1) : text[n] = "digit" OBVIOUS
  <2>1. k > j + 1
    <3> SUFFICES ASSUME k = j + 1 PROVE FALSE BY <1>2
    <3>1. SubSeq(text, j + 1, k - 1) = <<>> BY <1>1, <1>2
    <3> QED BY <1>2, <3>1 DEF IsNumber
  <2>2. Len(SubSeq(text, j + 1, k - 1)) = k - 1 - j BY <1>1, <1>2, <2>1
  <2>3. ASSUME NEW n \in (j + 1)..(k - 1) PROVE text[n] = "digit"
    <3>1. n - j \in 1..(k - 1 - j) /\ SubSeq(text, j + 1, k - 1)[n - j] = text[n] BY <1>1, <1>2, <2>1
    <3> QED BY <1>2, <2>2, <3>1 DEF IsNumber
  <2> QED BY <2>1, <2>3
<1> DEFINE kept == SubSeq(text, i, Len(text))
           usual == SubSeq(text, i, k - 1)
<1>5. DropFront(text, CharKinds \ {"digit"}) = kept
  <2>1. i \in 1..Len(text) /\ text[i] \notin CharKinds \ {"digit"} BY <1>1, <1>2, <1>3
  <2>2. \A n \in 1..(i - 1) : text[n] \in CharKinds \ {"digit"} BY <1>2 DEF CharKinds
  <2> QED BY <2>1, <2>2, FrontDropped
<1>6. /\ kept \in Seq(CharKinds) /\ Len(kept) = Len(text) - i + 1
      /\ \A n \in 1..Len(kept) : kept[n] = text[n + i - 1]
  BY <1>1, <1>2
<1>7. /\ usual \in Seq(CharKinds) /\ Len(usual) = k - i
      /\ \A n \in 1..Len(usual) : usual[n] = text[n + i - 1]
  BY <1>1, <1>2
<1>8. DropBack(kept, {"space", "nul"}) = usual
  <2>1. k - i \in 1..Len(kept) BY <1>1, <1>2, <1>6
  <2>2. kept[k - i] \notin {"space", "nul"} BY <1>1, <1>2, <1>3, <1>4, <1>6, <2>1
  <2>3. \A n \in (k - i + 1)..Len(kept) : kept[n] \in {"space", "nul"} BY <1>1, <1>2, <1>6
  <2>4. DropBack(kept, {"space", "nul"}) = SubSeq(kept, 1, k - i)
    <3> DEFINE p == k - i
               K == {"space", "nul"}
    <3>1. p \in 1..Len(kept) /\ kept[p] \notin K /\ \A n \in (p + 1)..Len(kept) : kept[n] \in K
      BY <2>1, <2>2, <2>3
    <3> HIDE DEF kept, p, K
    <3>2. DropBack(kept, K) = SubSeq(kept, 1, p) BY <1>6, <3>1, BackDropped, ZenonT(40)
    <3> QED BY <3>2 DEF p, K
  <2>5. SubSeq(kept, 1, k - i) = usual
    <3>1. /\ SubSeq(kept, 1, k - i) \in Seq(CharKinds) /\ Len(SubSeq(kept, 1, k - i)) = k - i
          /\ \A n \in 1..(k - i) : SubSeq(kept, 1, k - i)[n] = kept[n]
      BY <1>6, <2>1
    <3> HIDE DEF kept, usual
    <3>2. \A n \in 1..(k - i) : n \in 1..Len(kept) BY <2>1
    <3>3. \A n \in 1..(k - i) : SubSeq(kept, 1, k - i)[n] = usual[n] BY <1>6, <1>7, <3>1, <3>2
    <3> QED BY <1>7, <3>1, <3>3, SameSequence
  <2> QED BY <2>4, <2>5
<1>9. ProtText(text) = usual BY <1>5, <1>8 DEF ProtText
<1>10. /\ usual[1] = "digit" /\ usual[Len(usual)] = "digit" /\ Len(usual) \in Nat \ {0}
       /\ \A n \in 1..Len(usual) : usual[n] = IF n = j - i + 1 /\ k > j THEN "dot" ELSE "digit"
  BY <1>1, <1>2, <1>3, <1>4, <1>7
<1> HIDE DEF usual, kept
<1>11. DropFront(usual, {"space"}) = usual
  <2>1. 1 \in 1..Len(usual) /\ usual[1] \notin {"space"} /\ \A n \in 1..(1 - 1) : usual[n] \in {"space"}
    BY <1>10
  <2>2. DropFront(usual, {"space"}) = SubSeq(usual, 1, Len(usual)) BY <1>7, <2>1, FrontDropped
  <2> QED BY <1>7, <2>2, WholeSeq
<1>12. DropBack(usual, {"space"}) = usual
  <2>1. /\ Len(usual) \in 1..Len(usual) /\ usual[Len(usual)] \notin {"space"}
        /\ \A n \in (Len(usual) + 1)..Len(usual) : usual[n] \in {"space"}
    BY <1>10
  <2>2. DropBack(usual, {"space"}) = SubSeq(usual, 1, Len(usual))
    <3> DEFINE p == Len(usual)
               K == {"space"}
    <3>1. p \in 1..Len(usual) /\ usual[p] \notin K /\ \A n \in (p + 1)..Len(usual) : usual[n] \in K
      BY <2>1
    <3> HIDE DEF p, K
    <3>2. DropBack(usual, K) = SubSeq(usual, 1, p) BY <1>7, <3>1, BackDropped, ZenonT(40)
    <3> QED BY <3>2 DEF p, K
  <2> QED BY <1>7, <2>2, WholeSeq
<1> DEFINE dots == {n \in 1..Len(usual) : usual[n] = "dot"}
<1>13. HasProtVersion(usual) =
         (IF dots = {} THEN IsNumber(usual)
          ELSE LET d == CHOOSE n \in dots : \A m \in dots : n <= m
               IN IsNumber(SubSeq(usual, 1, d - 1)) /\ IsNumber(SubSeq(usual, d + 1, Len(usual))))
  BY <1>11, <1>12 DEF HasProtVersion
<1>14. CASE k = j
  <2>1. dots = {} BY <1>10, <1>14
  <2>2. IsNumber(usual) BY <1>10, <1>14 DEF IsNumber
  <2> QED BY <1>9, <1>13, <2>1, <2>2
<1>15. CASE k > j
  <2> DEFINE d == j - i + 1
  <2>1. d \in 2..(Len(usual) - 1) BY <1>1, <1>2, <1>4, <1>7, <1>15
  <2>2. dots = {d} BY <1>10, <1>15, <2>1
  <2>3. (CHOOSE n \in dots : \A m \in dots : n <= m) = d BY <2>1, <2>2
  <2> HIDE DEF d
  <2>4. \A n \in 1..Len(usual) : n # d => usual[n] = "digit" BY <1>10 DEF d
  <2>5. IsNumber(SubSeq(usual, 1, d - 1))
    <3>1. /\ Len(SubSeq(usual, 1, d - 1)) = d - 1
          /\ \A n \in 1..(d - 1) : SubSeq(usual, 1, d - 1)[n] = usual[n]
      <4>1. 1 \in 1..(Len(usual) + 1) /\ d - 1 \in 0..Len(usual) /\ 1 <= d - 1 BY <2>1
      <4>2. d - 1 - 1 + 1 = d - 1 /\ \A n \in Int : n + 1 - 1 = n BY <2>1
      <4> QED BY <1>7, <4>1, <4>2, PartOfSeq
    <3>2. SubSeq(usual, 1, d - 1) # <<>> BY <2>1, <3>1
    <3> QED BY <2>1, <2>4, <3>1, <3>2 DEF IsNumber
  <2>6. IsNumber(SubSeq(usual, d + 1, Len(usual)))
    <3> DEFINE e == d + 1
               l == Len(usual)
               tail == SubSeq(usual, e, l)
    <3>1. Len(tail) = l - e + 1 /\ \A n \in 1..(l - e + 1) : tail[n] = usual[n + e - 1]
      <4>1. e \in 1..(l + 1) /\ e <= l /\ l \in 0..l BY <2>1
      <4> HIDE DEF e
      <4> QED BY <1>7, <4>1, PartOfSeq
    <3>2. l - e + 1 \in Nat \ {0} /\ \A n \in 1..(l - e + 1) : n + e - 1 \in 1..l /\ n + e - 1 # d BY <2>1
    <3> HIDE DEF e, tail, l
    <3>3. \A n \in 1..Len(tail) : tail[n] = "digit" BY <2>4, <3>1, <3>2 DEF l
    <3>4. tail # <<>> BY <3>1, <3>2
    <3> QED BY <3>3, <3>4 DEF IsNumber, tail, e, l
  <2> QED BY <1>9, <1>13, <2>2, <2>3, <2>5, <2>6
<1> QED BY <1>2, <1>14, <1>15

-----------------------------------------------------------------------------
\* A time's stamp is that time.
LEMMA StampIsTime ==
    ASSUME NEW t \in Nat
    PROVE  LET s == Stamp(t) IN s.sec \in Int /\ s.nsec \in 0..(NanosPerSecond - 1) /\ Nanos(s) = t
<1>1. NanosPerSecond \in Nat \ {0} BY MessageProcessorAssumption
<1>2. /\ t \div NanosPerSecond \in Int /\ t % NanosPerSecond \in 0..(NanosPerSecond - 1)
      /\ t = (t \div NanosPerSecond) * NanosPerSecond + (t % NanosPerSecond)
  BY <1>1
<1> QED BY <1>2 DEF Stamp, Nanos

\* The edge that was not timed lies the length of the last pulse from the one that was.
LEMMA EdgeIsRecovered ==
    ASSUME NEW sec \in Int, NEW nsec \in 0..(NanosPerSecond - 1), NEW length \in 0..(PulseLimit - 1)
    PROVE  LET given == [sec |-> sec, nsec |-> nsec]
               rising == RisingFrom(given, length)
               falling == FallingFrom(given, length)
           IN /\ rising.nsec \in 0..(NanosPerSecond - 1) /\ Nanos(given) - Nanos(rising) = length
              /\ falling.nsec \in 0..(NanosPerSecond - 1) /\ Nanos(falling) - Nanos(given) = length
<1>1. NanosPerSecond \in Nat \ {0} /\ PulseLimit \in 1..NanosPerSecond BY MessageProcessorAssumption
<1>2. length \div NanosPerSecond = 0 /\ length % NanosPerSecond = length
  <2> DEFINE m == NanosPerSecond
  <2>1. length \in 0..(m - 1) /\ m \in Nat \ {0} BY <1>1
  <2> HIDE DEF m
  <2>2. length \div m = 0 /\ length % m = length BY <2>1
  <2> QED BY <2>2 DEF m
<1> DEFINE given == [sec |-> sec, nsec |-> nsec]
<1>3. RisingFrom(given, length) = Borrow([sec |-> sec, nsec |-> nsec - length])
  BY <1>2 DEF RisingFrom
<1>4. FallingFrom(given, length) = Carry([sec |-> sec, nsec |-> nsec + length])
  BY <1>2 DEF FallingFrom
<1>5. /\ sec * NanosPerSecond \in Int
      /\ (sec - 1) * NanosPerSecond = sec * NanosPerSecond - NanosPerSecond
      /\ (sec + 1) * NanosPerSecond = sec * NanosPerSecond + NanosPerSecond
  BY <1>1
<1>6. RisingFrom(given, length) = IF nsec >= length THEN [sec |-> sec, nsec |-> nsec - length]
                                  ELSE [sec |-> sec - 1, nsec |-> nsec - length + NanosPerSecond]
  BY <1>1, <1>3 DEF Borrow
<1>7. FallingFrom(given, length) =
        IF nsec + length >= NanosPerSecond THEN [sec |-> sec + 1, nsec |-> nsec + length - NanosPerSecond]
        ELSE [sec |-> sec, nsec |-> nsec + length]
  BY <1>1, <1>4 DEF Carry
<1>8. Nanos(given) = sec * NanosPerSecond + nsec BY DEF Nanos
<1>9. LET rising == RisingFrom(given, length)
      IN rising.nsec \in 0..(NanosPerSecond - 1) /\ Nanos(given) - Nanos(rising) = length
  BY <1>1, <1>5, <1>6, <1>8 DEF Nanos
<1>10. LET falling == FallingFrom(given, length)
       IN falling.nsec \in 0..(NanosPerSecond - 1) /\ Nanos(falling) - Nanos(given) = length
  BY <1>1, <1>5, <1>7, <1>8 DEF Nanos
<1> QED BY <1>9, <1>10

MpIInv == lastPulseLength \in 0..(PulseLimit - 1) /\ MessagesAreDecoded

\* An event of another kind says nothing of a version or of a pulse.
LEMMA FieldsAreDecoded ==
    ASSUME NEW m \in Handled \ {"MON_VER", "TIM_TM2"}, NEW len \in PayloadLengths[m], MpIInv,
           ProcessFields(m, len)
    PROVE  MpIInv'
<1>1. mpEvent'.kind = m /\ mpEvent'.reads = handlerLookup(m, len) /\ mpEvent'.len = len
  BY DEF ProcessFields
<1>2. Fits(handlerLookup(m, len), len, TakenTwice(m))
  <2>1. CASE m \in {"NAV_SVINFO", "NAV_SAT", "CFG_GNSS"} BY <2>1, BlockFieldsFit
  <2>2. CASE m \notin {"NAV_SVINFO", "NAV_SAT", "CFG_GNSS"} BY <2>2, FixedFieldsFit
  <2> QED BY <2>1, <2>2
<1> QED BY <1>1, <1>2 DEF ProcessFields, MpIInv, MessagesAreDecoded, FieldsInPayload, Fits, VersionIsUnderstood,
                         PulseIsRecovered

LEMMA VersionIsDecoded ==
    ASSUME NEW text \in VersionTexts, NEW len \in PayloadLengths["MON_VER"] \ {40}, MpIInv,
           ProcessMonVer(text, len)
    PROVE  MpIInv'
<1>1. /\ mpEvent'.kind = "MON_VER" /\ mpEvent'.reads = UBXMonVer(len) /\ mpEvent'.len = len
      /\ mpEvent'.text = text
  BY DEF ProcessMonVer
<1>2. FieldsInPayload' BY <1>1, VersionFieldsFit DEF FieldsInPayload, Fits
<1>3. VersionIsUnderstood'
  BY <1>1, VersionTextsAssumption, AnnouncedIsUnderstood DEF VersionIsUnderstood, ProcessMonVer
<1> QED BY <1>1, <1>2, <1>3 DEF ProcessMonVer, MpIInv, MessagesAreDecoded, PulseIsRecovered

LEMMA MarkIsDecoded ==
    ASSUME NEW r \in 0..LastNanosecond, NEW f \in 0..LastNanosecond, NEW rv \in BOOLEAN, NEW fv \in BOOLEAN,
           MpIInv, ProcessTimTM2(r, f, rv, fv)
    PROVE  MpIInv'
<1> DEFINE mark == TimeMark(Stamp(r), Stamp(f), rv, fv)
<1>1. r \in Nat /\ f \in Nat BY MessageProcessorAssumption
<1>2. /\ mpEvent'.kind = "TIM_TM2" /\ mpEvent'.reads = UBXTimTM2 /\ mpEvent'.len = 28
      /\ mpEvent'.mark = mark
  BY DEF ProcessTimTM2
<1>3. lastPulseLength' \in 0..(PulseLimit - 1)
  BY <1>1, MessageProcessorAssumption DEF ProcessTimTM2, Remembered, MpIInv
<1>4. FieldsInPayload'
  <2>1. "TIM_TM2" \in Handled \ {"NAV_SVINFO", "NAV_SAT", "CFG_GNSS", "MON_VER"} /\ 28 \in PayloadLengths["TIM_TM2"]
    BY DEF Handled, PayloadLengths
  <2>2. Fits(handlerLookup("TIM_TM2", 28), 28, TakenTwice("TIM_TM2")) BY <2>1, FixedFieldsFit
  <2>3. handlerLookup("TIM_TM2", 28) = UBXTimTM2 BY DEF handlerLookup
  <2> QED BY <1>2, <2>2, <2>3 DEF FieldsInPayload, Fits
<1>5. /\ Stamp(r) = [sec |-> Stamp(r).sec, nsec |-> Stamp(r).nsec]
      /\ Stamp(f) = [sec |-> Stamp(f).sec, nsec |-> Stamp(f).nsec]
  BY DEF Stamp
<1>6. /\ Stamp(r).sec \in Int /\ Stamp(r).nsec \in 0..(NanosPerSecond - 1)
      /\ Stamp(f).sec \in Int /\ Stamp(f).nsec \in 0..(NanosPerSecond - 1)
  BY <1>1, StampIsTime
<1>7. PulseIsRecovered'
  <2>1. CASE rv = fv
    <3>1. mark.rising = Stamp(r) /\ mark.falling = Stamp(f) /\ mark.risingValid = rv /\ mark.fallingValid = fv
      BY <2>1 DEF TimeMark
    <3> QED BY <1>2, <1>6, <2>1, <3>1 DEF PulseIsRecovered
  <2>2. CASE rv /\ ~fv
    <3>1. /\ mark.rising = Stamp(r) /\ mark.falling = FallingFrom(Stamp(r), lastPulseLength)
          /\ mark.risingValid = rv /\ mark.fallingValid = fv
      BY <2>2 DEF TimeMark
    <3>2. lastPulseLength' = lastPulseLength BY <2>2 DEF ProcessTimTM2
    <3>3. /\ FallingFrom(Stamp(r), lastPulseLength).nsec \in 0..(NanosPerSecond - 1)
          /\ Nanos(FallingFrom(Stamp(r), lastPulseLength)) - Nanos(Stamp(r)) = lastPulseLength
      BY <1>5, <1>6, EdgeIsRecovered DEF MpIInv
    <3> QED BY <1>2, <1>6, <3>1, <3>2, <3>3 DEF PulseIsRecovered
  <2>3. CASE ~rv /\ fv
    <3>1. /\ mark.falling = Stamp(f) /\ mark.rising = RisingFrom(Stamp(f), lastPulseLength)
          /\ mark.risingValid = rv /\ mark.fallingValid = fv
      BY <2>3 DEF TimeMark
    <3>2. lastPulseLength' = lastPulseLength BY <2>3 DEF ProcessTimTM2
    <3>3. /\ RisingFrom(Stamp(f), lastPulseLength).nsec \in 0..(NanosPerSecond - 1)
          /\ Nanos(Stamp(f)) - Nanos(RisingFrom(Stamp(f), lastPulseLength)) = lastPulseLength
      BY <1>5, <1>6, EdgeIsRecovered DEF MpIInv
    <3> QED BY <1>2, <1>6, <3>1, <3>2, <3>3 DEF PulseIsRecovered
  <2> QED BY <2>1, <2>2, <2>3
<1> QED BY <1>2, <1>3, <1>4, <1>7 DEF MpIInv, MessagesAreDecoded, VersionIsUnderstood

\* MessageProcessor (message_processor.cpp): whatever messages the receiver sends, in whatever order,
\* the handlers stay inside the payloads, a version in its usual form is understood and a pulse timed
\* at one edge is recovered, for every scale of the time and every set of version texts.
THEOREM MessagesDecoded == MpSpec => []MessagesAreDecoded
<1>1. MpInit => MpIInv
  <2>1. "nullopt" \notin Handled /\ 0 \in 0..(PulseLimit - 1)
    BY MessageProcessorAssumption DEF Handled, PayloadLengths
  <2> QED BY <2>1 DEF MpInit, MpIInv, MessagesAreDecoded, FieldsInPayload, VersionIsUnderstood, PulseIsRecovered
<1>2. MpIInv /\ [MpNext]_mpVars => MpIInv'
  <2> SUFFICES ASSUME MpIInv, [MpNext]_mpVars PROVE MpIInv' OBVIOUS
  <2>1. CASE UNCHANGED mpVars
    BY <2>1 DEF mpVars, MpIInv, MessagesAreDecoded, FieldsInPayload, VersionIsUnderstood, PulseIsRecovered
  <2>2. ASSUME NEW m \in Handled \ {"MON_VER", "TIM_TM2"}, NEW len \in PayloadLengths[m], ProcessFields(m, len)
        PROVE  MpIInv'
    BY <2>2, FieldsAreDecoded
  <2>3. ASSUME NEW text \in VersionTexts, NEW len \in PayloadLengths["MON_VER"] \ {40}, ProcessMonVer(text, len)
        PROVE  MpIInv'
    BY <2>3, VersionIsDecoded
  <2>4. ASSUME NEW r \in 0..LastNanosecond, NEW f \in 0..LastNanosecond, NEW rv \in BOOLEAN, NEW fv \in BOOLEAN,
               ProcessTimTM2(r, f, rv, fv)
        PROVE  MpIInv'
    BY <2>4, MarkIsDecoded
  <2>5. ASSUME NEW len, NEW isNak, ProcessAck(len, isNak) \/ ProcessUnhandled PROVE MpIInv'
    <3>1. mpEvent'.kind \in {"nullopt", "UbxAckNak", "UbxAckAck"} BY <2>5 DEF ProcessAck, ProcessUnhandled
    <3>2. mpEvent'.kind \notin Handled /\ mpEvent'.kind # "MON_VER" /\ mpEvent'.kind # "TIM_TM2"
      BY <3>1 DEF Handled, PayloadLengths
    <3> QED BY <2>5, <3>2 DEF ProcessAck, ProcessUnhandled, MpIInv, MessagesAreDecoded, FieldsInPayload,
                            VersionIsUnderstood, PulseIsRecovered
  <2> QED BY <2>1, <2>2, <2>3, <2>4, <2>5 DEF MpNext, MpStep
<1>3. MpIInv => MessagesAreDecoded BY DEF MpIInv
<1> QED BY <1>1, <1>2, <1>3, PTL DEF MpSpec

-----------------------------------------------------------------------------
(* Reading a run of bytes from each place on: what stands at a place, then  *)
(* what is read from the place behind it.                                   *)

LEMMA LeastNumber ==
    ASSUME NEW T, T \subseteq Nat, T # {}
    PROVE  \E n \in T : \A m \in T : n <= m
<1>1. IsWellFoundedOn(OpToRel(<, Nat), Nat) BY NatLessThanWellFounded
<1>2. PICK n \in T : \A m \in T : ~(<<m, n>> \in OpToRel(<, Nat))
  <2> HIDE DEF OpToRel
  <2> QED BY <1>1, WFMin
<1>3. \A m \in T : ~(m < n) BY <1>2 DEF OpToRel
<1> QED BY <1>3

\* The places at which something is read, with the number of bytes it has.
Widths(w, l) == l \in Nat /\ \A i \in DOMAIN w : i \in 1..l /\ w[i] \in Nat \ {0} /\ i + w[i] <= l + 1
ReadAt(f, w, out, i) == IF i \in DOMAIN w THEN out[i] \o f[i + w[i]] ELSE <<>>

IsReading(f, w, out, l) == f = [i \in 1..(l + 1) |-> ReadAt(f, w, out, i)]

LEMMA ReadingExists == ASSUME NEW l, NEW w, NEW out, Widths(w, l) PROVE \E f : IsReading(f, w, out, l)
<1> DEFINE Partial(f, n) == f = [i \in (l + 1 - n)..(l + 1) |-> ReadAt(f, w, out, i)]
           T == {n \in Nat : n <= l /\ ~\E f : Partial(f, n)}
<1>1. l \in Nat BY DEF Widths
<1>2. T = {}
  <2> SUFFICES ASSUME T # {} PROVE FALSE OBVIOUS
  <2>1. PICK n \in T : \A m \in T : n <= m
    <3>1. T \subseteq Nat OBVIOUS
    <3> HIDE DEF T
    <3> QED BY <3>1, LeastNumber
  <2>2. n \in Nat /\ n <= l /\ ~\E f : Partial(f, n) OBVIOUS
  <2> HIDE DEF T
  <2>3. n # 0
    <3> SUFFICES ASSUME n = 0 PROVE FALSE OBVIOUS
    <3> DEFINE f == [i \in (l + 1)..(l + 1) |-> <<>>]
    <3>1. \A i \in (l + 1)..(l + 1) : i \notin DOMAIN w BY <1>1 DEF Widths
    <3>2. f = [i \in (l + 1)..(l + 1) |-> ReadAt(f, w, out, i)] BY <3>1 DEF ReadAt
    <3>3. l + 1 - n = l + 1 BY <1>1
    <3>4. Partial(f, n) BY <3>2, <3>3
    <3> QED BY <2>2, <3>4
  <2>4. n - 1 \in Nat /\ n - 1 <= l /\ n - 1 \notin T BY <2>1, <2>2, <2>3, <1>1
  <2>5. PICK f : Partial(f, n - 1) BY <2>4 DEF T
  <2> DEFINE a == l + 1 - n
             upper == (a + 1)..(l + 1)
             g == [i \in a..(l + 1) |-> ReadAt(f, w, out, i)]
  <2>6. f = [i \in upper |-> ReadAt(f, w, out, i)]
    <3>1. l + 1 - (n - 1) = a + 1 BY <1>1, <2>2
    <3> QED BY <2>5, <3>1
  <2>7. \A i \in upper : i \in a..(l + 1) BY <1>1, <2>2
  <2>8. \A i \in a..(l + 1) : i \in DOMAIN w => i + w[i] \in upper BY <1>1, <2>2 DEF Widths
  <2> HIDE DEF a, upper
  <2>9. \A i \in upper : g[i] = f[i] BY <2>6, <2>7
  <2>10. \A i \in a..(l + 1) : ReadAt(f, w, out, i) = ReadAt(g, w, out, i)
    <3> HIDE DEF g
    <3> QED BY <2>8, <2>9 DEF ReadAt
  <2>11. g = [i \in a..(l + 1) |-> ReadAt(g, w, out, i)]
    <3> DEFINE h == [i \in a..(l + 1) |-> ReadAt(g, w, out, i)]
    <3>1. h = [i \in a..(l + 1) |-> ReadAt(f, w, out, i)] BY <2>10
    <3> QED BY <3>1
  <2> HIDE DEF g
  <2>12. Partial(g, n) BY <2>11 DEF a
  <2> QED BY <2>2, <2>12
<1>3. PICK f : Partial(f, l) BY <1>1, <1>2
<1>4. l + 1 - l = 1 BY <1>1
<1>5. IsReading(f, w, out, l) BY <1>3, <1>4 DEF IsReading
<1> QED BY <1>5

LEMMA ReadingIsTyped ==
    ASSUME NEW l, NEW w, NEW out, Widths(w, l), NEW S, \A i \in DOMAIN w : out[i] \in Seq(S),
           NEW f, \A i \in 1..(l + 1) : f[i] = ReadAt(f, w, out, i)
    PROVE  \A i \in 1..(l + 1) : f[i] \in Seq(S)
<1> DEFINE T == {n \in Nat : n <= l /\ f[l + 1 - n] \notin Seq(S)}
<1>1. l \in Nat BY DEF Widths
<1>2. T = {}
  <2> SUFFICES ASSUME T # {} PROVE FALSE OBVIOUS
  <2>1. PICK n \in T : \A m \in T : n <= m
    <3>1. T \subseteq Nat OBVIOUS
    <3> HIDE DEF T
    <3> QED BY <3>1, LeastNumber
  <2>2. n \in Nat /\ n <= l /\ f[l + 1 - n] \notin Seq(S) OBVIOUS
  <2>3. \A m \in Nat : m < n => f[l + 1 - m] \in Seq(S) BY <1>1, <2>1, <2>2
  <2> DEFINE i == l + 1 - n
  <2>4. i \in 1..(l + 1) BY <1>1, <2>2
  <2>5. CASE i \in DOMAIN w
    <3> DEFINE m == l + 1 - (i + w[i])
    <3>1. m \in Nat /\ m < n /\ l + 1 - m = i + w[i] BY <1>1, <2>2, <2>5, SMTT(60) DEF Widths
    <3>2. f[i + w[i]] \in Seq(S) BY <2>3, <3>1
    <3>3. f[i] = out[i] \o f[i + w[i]] BY <2>4, <2>5 DEF ReadAt
    <3> HIDE DEF i
    <3>4. f[i] \in Seq(S) BY <2>5, <3>2, <3>3, ConcatProperties
    <3> QED BY <2>2, <3>4 DEF i
  <2>6. CASE i \notin DOMAIN w
    <3>1. f[i] = <<>> BY <2>4, <2>6 DEF ReadAt
    <3> QED BY <2>2, <3>1
  <2> QED BY <2>5, <2>6
<1>3. ASSUME NEW i \in 1..(l + 1) PROVE f[i] \in Seq(S)
  <2>1. l + 1 - i \in Nat /\ l + 1 - i <= l /\ l + 1 - (l + 1 - i) = i BY <1>1
  <2> QED BY <1>2, <2>1
<1> QED BY <1>3

-----------------------------------------------------------------------------
(* The checksum of UBX messages.                                            *)

\* f has the running sums of the first n bytes of s.
IsSum(f, n, s) == f = [k \in 0..n |-> IF k = 0 THEN <<0, 0>> ELSE Added(f[k - 1], s[k])]

LEMMA SumExists == ASSUME NEW s, NEW l \in Nat PROVE \E f : IsSum(f, l, s)
<1> DEFINE T == {n \in Nat : ~\E f : IsSum(f, n, s)}
<1>1. T = {}
  <2> SUFFICES ASSUME T # {} PROVE FALSE OBVIOUS
  <2>1. PICK n \in T : \A m \in T : n <= m
    <3>1. T \subseteq Nat OBVIOUS
    <3> HIDE DEF T
    <3> QED BY <3>1, LeastNumber
  <2>2. n \in Nat /\ ~\E f : IsSum(f, n, s) OBVIOUS
  <2>3. n # 0
    <3> SUFFICES ASSUME n = 0 PROVE FALSE OBVIOUS
    <3> DEFINE f == [k \in 0..0 |-> <<0, 0>>]
    <3>1. f = [k \in 0..0 |-> IF k = 0 THEN <<0, 0>> ELSE Added(f[k - 1], s[k])] OBVIOUS
    <3>2. IsSum(f, n, s) BY <3>1 DEF IsSum
    <3> QED BY <2>2, <3>2
  <2>4. n - 1 \in Nat /\ n - 1 \notin T
    <3>1. n - 1 \in Nat /\ n - 1 < n BY <2>2, <2>3
    <3> HIDE DEF T
    <3> QED BY <2>1, <2>2, <3>1
  <2>5. PICK f : IsSum(f, n - 1, s) BY <2>4
  <2> HIDE DEF T
  <2> DEFINE e == Added(f[n - 1], s[n])
             g == [k \in 0..n |-> IF k = n THEN e ELSE f[k]]
  <2>6. f = [k \in 0..(n - 1) |-> IF k = 0 THEN <<0, 0>> ELSE Added(f[k - 1], s[k])] BY <2>5 DEF IsSum
  <2>7. ASSUME NEW k \in 0..n PROVE g[k] = IF k = 0 THEN <<0, 0>> ELSE Added(g[k - 1], s[k])
    <3>1. CASE k = n
      <4>1. n - 1 \in 0..n /\ n - 1 # n /\ n \in 0..n BY <2>2, <2>3
      <4>2. g[k - 1] = f[n - 1] /\ g[k] = e BY <3>1, <4>1
      <4> QED BY <2>3, <3>1, <4>2
    <3>2. CASE k # n
      <4>1. k \in 0..(n - 1) BY <2>2, <3>2
      <4>2. k # 0 => k - 1 \in 0..n /\ k - 1 # n BY <2>2, <4>1
      <4>3. k # 0 => g[k - 1] = f[k - 1] BY <4>2
      <4>4. g[k] = f[k] BY <3>2
      <4>5. f[k] = IF k = 0 THEN <<0, 0>> ELSE Added(f[k - 1], s[k]) BY <2>6, <4>1
      <4> HIDE DEF g
      <4> QED BY <4>3, <4>4, <4>5
    <3> QED BY <3>1, <3>2
  <2>8. g = [k \in 0..n |-> IF k = 0 THEN <<0, 0>> ELSE Added(g[k - 1], s[k])]
    <3> DEFINE h == [k \in 0..n |-> IF k = 0 THEN <<0, 0>> ELSE Added(g[k - 1], s[k])]
    <3>1. DOMAIN g = 0..n /\ g = [k \in 0..n |-> g[k]] OBVIOUS
    <3>2. DOMAIN h = 0..n /\ h = [k \in 0..n |-> h[k]] OBVIOUS
    <3>3. \A k \in 0..n : h[k] = IF k = 0 THEN <<0, 0>> ELSE Added(g[k - 1], s[k]) OBVIOUS
    <3> HIDE DEF g, h
    <3>4. \A k \in 0..n : g[k] = h[k] BY <2>7, <3>3
    <3>5. g = h BY <3>1, <3>2, <3>4
    <3> QED BY <3>5 DEF h
  <2>9. IsSum(g, n, s)
    <3> HIDE DEF g
    <3> QED BY <2>8 DEF IsSum
  <2> QED BY <2>2, <2>9
<1> QED BY <1>1

\* The sums of the first bytes do not depend on what follows.
LEMMA SumsAgree ==
    ASSUME NEW s, NEW t, NEW l \in Nat, NEW n \in 0..l, NEW f, IsSum(f, n, s), NEW g, IsSum(g, l, t),
           \A k \in 1..n : s[k] = t[k]
    PROVE  f[n] = g[n]
<1> DEFINE T == {k \in 0..n : f[k] # g[k]}
<1>1. \A k \in 0..n : f[k] = IF k = 0 THEN <<0, 0>> ELSE Added(f[k - 1], s[k]) BY DEF IsSum
<1>2. \A k \in 0..l : g[k] = IF k = 0 THEN <<0, 0>> ELSE Added(g[k - 1], t[k]) BY DEF IsSum
<1>3. T = {}
  <2> SUFFICES ASSUME T # {} PROVE FALSE OBVIOUS
  <2>1. PICK k \in T : \A m \in T : k <= m
    <3>1. T \subseteq Nat OBVIOUS
    <3> HIDE DEF T
    <3> QED BY <3>1, LeastNumber
  <2>2. k \in 0..n /\ f[k] # g[k] OBVIOUS
  <2>3. k \in 0..l BY <2>2
  <2>4. k # 0 BY <1>1, <1>2, <2>2, <2>3
  <2>5. k - 1 \in 0..n /\ k - 1 < k /\ k \in 1..n BY <2>2, <2>4
  <2>6. k - 1 \notin T
    <3> HIDE DEF T
    <3> QED BY <2>1, <2>5
  <2>7. f[k - 1] = g[k - 1] BY <2>5, <2>6
  <2>8. f[k] = Added(f[k - 1], s[k]) /\ g[k] = Added(g[k - 1], t[k]) BY <1>1, <1>2, <2>2, <2>3, <2>4
  <2> QED BY <2>2, <2>5, <2>7, <2>8
<1>4. n \in 0..n OBVIOUS
<1> QED BY <1>3, <1>4

LEMMA SumsAreSums == ASSUME NEW S, NEW s \in Seq(S) PROVE IsSum(SumsOf(s), Len(s), s)
<1> DEFINE Entry(f, k) == IF k = 0 THEN <<0, 0>> ELSE Added(f[k - 1], s[k])
<1>1. PICK f : IsSum(f, Len(s), s)
  <2>1. Len(s) \in Nat OBVIOUS
  <2> QED BY <2>1, SumExists
<1>2. f = [k \in 0..Len(s) |-> Entry(f, k)] BY <1>1 DEF IsSum
<1>3. SumsOf(s) = [k \in 0..Len(s) |-> Entry(SumsOf(s), k)] BY <1>2 DEF SumsOf
<1> QED BY <1>3 DEF IsSum

\* The checksum of more bytes.
LEMMA CheckSumGrows ==
    ASSUME NEW S, NEW s \in Seq(S), NEW b \in S
    PROVE  CheckSum(Append(s, b)) = Added(CheckSum(s), b)
<1> DEFINE t == Append(s, b)
           l == Len(s)
           g == SumsOf(t)
<1>1. l \in Nat /\ t \in Seq(S) /\ Len(t) = l + 1 /\ t[l + 1] = b /\ \A k \in 1..l : s[k] = t[k] OBVIOUS
<1>2. IsSum(SumsOf(s), l, s) /\ IsSum(g, l + 1, t) BY <1>1, SumsAreSums
<1> HIDE DEF t, l, g
<1>3. SumsOf(s)[l] = g[l]
  <2>1. l \in 0..(l + 1) /\ l + 1 \in Nat BY <1>1
  <2> QED BY <1>1, <1>2, <2>1, SumsAgree
<1>4. g[l + 1] = Added(g[l], b)
  <2>1. \A k \in 0..(l + 1) : g[k] = IF k = 0 THEN <<0, 0>> ELSE Added(g[k - 1], t[k]) BY <1>2 DEF IsSum
  <2>2. l + 1 \in 0..(l + 1) /\ l + 1 # 0 /\ l + 1 - 1 = l BY <1>1
  <2> QED BY <1>1, <2>1, <2>2
<1>5. CheckSum(t) = g[l + 1] /\ CheckSum(s) = SumsOf(s)[l] BY <1>1 DEF CheckSum, g, l
<1> QED BY <1>3, <1>4, <1>5 DEF t

LEMMA CheckSumOfNothing == CheckSum(<<>>) = <<0, 0>>
<1>1. <<>> \in Seq({0}) /\ Len(<<>>) = 0 OBVIOUS
<1>2. IsSum(SumsOf(<<>>), 0, <<>>) BY <1>1, SumsAreSums
<1>3. SumsOf(<<>>)[0] = <<0, 0>> BY <1>2 DEF IsSum
<1> QED BY <1>1, <1>3 DEF CheckSum

-----------------------------------------------------------------------------
(* The parser of UBX messages.                                              *)

UbxMessages == [cls : UbxBytes, id : UbxBytes, payload : Seq(UbxBytes)]

UbxWidths(s) ==
    [i \in {j \in 1..Len(s) : j + 5 <= Len(s) /\ j + UbxWidth(s, j) - 1 <= Len(s)} |-> UbxWidth(s, i)]
UbxAt(s) == [i \in DOMAIN UbxWidths(s) |-> MessageAt(s, i)]

LEMMA UbxBytesAreNumbers == \A b \in UbxBytes : b \in Nat /\ b <= 255 /\ b % 256 = b /\ b \div 256 = 0
BY DEF UbxBytes

\* A place at which a header is complete.
LEMMA HeaderIsThere ==
    ASSUME NEW s \in Seq(UbxBytes), NEW i \in 1..Len(s), i + 5 <= Len(s)
    PROVE  /\ s[i + 2] \in UbxBytes /\ s[i + 3] \in UbxBytes
           /\ Announced(s, i) \in Nat
           /\ UbxWidth(s, i) \in Nat \ {0}
<1>1. i + 2 \in 1..Len(s) /\ i + 3 \in 1..Len(s) /\ i + 4 \in 1..Len(s) /\ i + 5 \in 1..Len(s) OBVIOUS
<1>2. s[i + 2] \in UbxBytes /\ s[i + 3] \in UbxBytes /\ s[i + 4] \in UbxBytes /\ s[i + 5] \in UbxBytes
  BY <1>1, ElementOfSeq
<1>3. Announced(s, i) \in Nat
  <2>1. s[i + 4] \in Nat /\ s[i + 5] \in Nat BY <1>2, UbxBytesAreNumbers
  <2> QED BY <2>1 DEF Announced
<1>4. UbxWidth(s, i) \in {1, 6, 8 + Announced(s, i)} BY DEF UbxWidth
<1> QED BY <1>2, <1>3, <1>4

LEMMA UbxWidthsFit == ASSUME NEW s \in Seq(UbxBytes) PROVE Widths(UbxWidths(s), Len(s))
<1>1. Len(s) \in Nat OBVIOUS
<1>2. ASSUME NEW i \in DOMAIN UbxWidths(s)
      PROVE  i \in 1..Len(s) /\ UbxWidths(s)[i] \in Nat \ {0} /\ i + UbxWidths(s)[i] <= Len(s) + 1
  <2>1. /\ i \in 1..Len(s) /\ i + 5 <= Len(s) /\ i + UbxWidth(s, i) - 1 <= Len(s)
        /\ UbxWidths(s)[i] = UbxWidth(s, i)
    BY DEF UbxWidths
  <2>2. UbxWidth(s, i) \in Nat \ {0} BY <2>1, HeaderIsThere
  <2> QED BY <1>1, <2>1, <2>2
<1> QED BY <1>1, <1>2 DEF Widths

\* What is read from a place on.
LEMMA MessagesAreRead ==
    ASSUME NEW s \in Seq(UbxBytes)
    PROVE  \A i \in 1..(Len(s) + 1) : MessagesFrom(s)[i] = ReadAt(MessagesFrom(s), UbxWidths(s), UbxAt(s), i)
<1> DEFINE Entry(f, i) == IF i + 5 > Len(s) \/ i + UbxWidth(s, i) - 1 > Len(s) THEN <<>>
                          ELSE MessageAt(s, i) \o f[i + UbxWidth(s, i)]
           Read(f, i) == ReadAt(f, UbxWidths(s), UbxAt(s), i)
<1>1. ASSUME NEW f, NEW i \in 1..(Len(s) + 1) PROVE Read(f, i) = Entry(f, i)
  <2>1. Len(s) \in Nat /\ i \in Nat OBVIOUS
  <2>2. i \in DOMAIN UbxWidths(s) <=> ~(i + 5 > Len(s) \/ i + UbxWidth(s, i) - 1 > Len(s))
    <3>1. CASE i + 5 <= Len(s)
      <4>1. i \in 1..Len(s) BY <2>1, <3>1
      <4>2. UbxWidth(s, i) \in Nat BY <3>1, <4>1, HeaderIsThere
      <4> QED BY <2>1, <3>1, <4>1, <4>2 DEF UbxWidths
    <3>2. CASE i + 5 > Len(s) BY <2>1, <3>2 DEF UbxWidths
    <3> QED BY <2>1, <3>1, <3>2
  <2>3. ASSUME i \in DOMAIN UbxWidths(s)
        PROVE  UbxWidths(s)[i] = UbxWidth(s, i) /\ UbxAt(s)[i] = MessageAt(s, i)
    BY <2>3 DEF UbxWidths, UbxAt
  <2> QED BY <2>2, <2>3 DEF ReadAt
<1>2. PICK f : IsReading(f, UbxWidths(s), UbxAt(s), Len(s)) BY UbxWidthsFit, ReadingExists
<1>3. f = [i \in 1..(Len(s) + 1) |-> Entry(f, i)]
  <2> DEFINE h == [i \in 1..(Len(s) + 1) |-> Entry(f, i)]
  <2> HIDE DEF Read, Entry
  <2>1. h = [i \in 1..(Len(s) + 1) |-> Read(f, i)] BY <1>1
  <2>2. f = [i \in 1..(Len(s) + 1) |-> Read(f, i)] BY <1>2 DEF IsReading, Read
  <2> QED BY <2>1, <2>2
<1>4. MessagesFrom(s) = [i \in 1..(Len(s) + 1) |-> Entry(MessagesFrom(s), i)] BY <1>3 DEF MessagesFrom
<1> HIDE DEF Read, Entry
<1>5. \A i \in 1..(Len(s) + 1) : MessagesFrom(s)[i] = Read(MessagesFrom(s), i) BY <1>1, <1>4
<1> QED BY <1>5 DEF Read

LEMMA MessagesAreMessages ==
    ASSUME NEW s \in Seq(UbxBytes)
    PROVE  \A i \in 1..(Len(s) + 1) : MessagesFrom(s)[i] \in Seq(UbxMessages)
<1>1. ASSUME NEW i \in DOMAIN UbxWidths(s) PROVE UbxAt(s)[i] \in Seq(UbxMessages)
  <2> DEFINE n == Announced(s, i)
  <2>1. /\ UbxAt(s)[i] = MessageAt(s, i)
        /\ i \in 1..Len(s) /\ i + 5 <= Len(s) /\ i + UbxWidth(s, i) - 1 <= Len(s)
    BY DEF UbxAt, UbxWidths
  <2>2. s[i + 2] \in UbxBytes /\ s[i + 3] \in UbxBytes /\ n \in Nat BY <2>1, HeaderIsThere
  <2> HIDE DEF n
  <2>3. ASSUME UbxWidth(s, i) = 8 + n PROVE SubSeq(s, i + 6, i + 5 + n) \in Seq(UbxBytes)
    <3>1. i + 6 \in Int /\ i + 5 + n \in Int /\ \A k \in (i + 6)..(i + 5 + n) : k \in 1..Len(s)
      BY <2>1, <2>2, <2>3
    <3>2. \A k \in (i + 6)..(i + 5 + n) : s[k] \in UbxBytes BY <3>1, ElementOfSeq
    <3> QED BY <3>1, <3>2, SubSeqProperties
  <2>4. MessageAt(s, i) = IF UbxWidth(s, i) = 8 + n /\ CheckSum(SubSeq(s, i + 2, i + 5 + n)) = <<s[i + 6 + n], s[i + 7 + n]>>
                          THEN <<[cls |-> s[i + 2], id |-> s[i + 3], payload |-> SubSeq(s, i + 6, i + 5 + n)]>> ELSE <<>>
    BY DEF MessageAt, n
  <2>5. ASSUME UbxWidth(s, i) = 8 + n
        PROVE  [cls |-> s[i + 2], id |-> s[i + 3], payload |-> SubSeq(s, i + 6, i + 5 + n)] \in UbxMessages
    BY <2>2, <2>3, <2>5 DEF UbxMessages
  <2>6. \A m \in UbxMessages : <<m>> \in Seq(UbxMessages)
    <3> HIDE DEF UbxMessages
    <3> QED OBVIOUS
  <2>7. <<>> \in Seq(UbxMessages) OBVIOUS
  <2> QED BY <2>1, <2>4, <2>5, <2>6, <2>7
<1> QED BY <1>1, UbxWidthsFit, MessagesAreRead, ReadingIsTyped

\* The run of bytes t begins with s.
UbxBegins(t, s) == t \in Seq(UbxBytes) /\ Len(s) <= Len(t) /\ \A i \in 1..Len(s) : t[i] = s[i]

\* Of the bytes s and whatever follows, the messages out are read, and then those from place p on.
UbxReached(s, out, p) == \A t : UbxBegins(t, s) => MessagesFrom(t)[1] = out \o MessagesFrom(t)[p]

LEMMA UbxBeginsLess ==
    ASSUME NEW s \in Seq(UbxBytes), NEW b \in UbxBytes, NEW t, UbxBegins(t, Append(s, b))
    PROVE  UbxBegins(t, s) /\ Len(s) + 1 <= Len(t) /\ t[Len(s) + 1] = b
<1>1. Len(s) \in Nat /\ Len(Append(s, b)) = Len(s) + 1 /\ Append(s, b)[Len(s) + 1] = b OBVIOUS
<1>2. \A i \in 1..Len(s) : i \in 1..(Len(s) + 1) /\ Append(s, b)[i] = s[i] BY <1>1
<1>3. \A i \in 1..Len(s) : t[i] = s[i] BY <1>1, <1>2 DEF UbxBegins
<1>4. Len(s) + 1 \in 1..(Len(s) + 1) BY <1>1
<1> QED BY <1>1, <1>3, <1>4 DEF UbxBegins

LEMMA UbxReachedStays ==
    ASSUME NEW s \in Seq(UbxBytes), NEW b \in UbxBytes, NEW out, NEW p, UbxReached(s, out, p)
    PROVE  UbxReached(Append(s, b), out, p)
BY UbxBeginsLess DEF UbxReached

\* What is read at a place if it is read in every case.
LEMMA UbxReachedStep ==
    ASSUME NEW s \in Seq(UbxBytes), NEW b \in UbxBytes, NEW out \in Seq(UbxMessages), NEW msgs \in Seq(UbxMessages),
           NEW p \in 1..(Len(s) + 1), UbxReached(s, out, p), NEW n \in Nat, p + n <= Len(s) + 2,
           \A t : UbxBegins(t, Append(s, b)) => MessagesFrom(t)[p] = msgs \o MessagesFrom(t)[p + n]
    PROVE  UbxReached(Append(s, b), out \o msgs, p + n)
<1> SUFFICES ASSUME NEW t, UbxBegins(t, Append(s, b))
             PROVE  MessagesFrom(t)[1] = (out \o msgs) \o MessagesFrom(t)[p + n]
  BY DEF UbxReached
<1>1. /\ Len(s) \in Nat /\ Len(Append(s, b)) = Len(s) + 1 /\ t \in Seq(UbxBytes) /\ Len(t) \in Nat
      /\ Len(s) + 1 <= Len(t)
  BY DEF UbxBegins
<1>2. UbxBegins(t, s) BY UbxBeginsLess
<1>3. MessagesFrom(t)[1] = out \o MessagesFrom(t)[p] BY <1>2 DEF UbxReached
<1>4. MessagesFrom(t)[p] = msgs \o MessagesFrom(t)[p + n] OBVIOUS
<1>5. p + n \in 1..(Len(t) + 1) BY <1>1
<1>6. MessagesFrom(t)[p + n] \in Seq(UbxMessages) BY <1>1, <1>5, MessagesAreMessages
<1>7. out \o (msgs \o MessagesFrom(t)[p + n]) = (out \o msgs) \o MessagesFrom(t)[p + n]
  <2> DEFINE rest == MessagesFrom(t)[p + n]
  <2>1. rest \in Seq(UbxMessages) BY <1>6
  <2> HIDE DEF rest, UbxMessages
  <2>2. (out \o msgs) \o rest = out \o (msgs \o rest) BY <2>1, ConcatAssociative, SMTT(60)
  <2> QED BY <2>2 DEF rest
<1> QED BY <1>3, <1>4, <1>7

\* A byte that begins no frame is passed over, also when too few are there to tell.
LEMMA UbxNoiseIsSkipped ==
    ASSUME NEW t \in Seq(UbxBytes), NEW p \in 1..Len(t), UbxWidth(t, p) = 1
    PROVE  MessagesFrom(t)[p] = MessagesFrom(t)[p + 1]
<1>1. Len(t) \in Nat /\ p \in 1..(Len(t) + 1) /\ p + 1 \in 1..(Len(t) + 1) OBVIOUS
<1>2. /\ MessagesFrom(t)[p] = ReadAt(MessagesFrom(t), UbxWidths(t), UbxAt(t), p)
      /\ MessagesFrom(t)[p + 1] = ReadAt(MessagesFrom(t), UbxWidths(t), UbxAt(t), p + 1)
  BY <1>1, MessagesAreRead
<1>3. CASE p + 5 <= Len(t)
  <2>1. p \in DOMAIN UbxWidths(t) /\ UbxWidths(t)[p] = 1 BY <1>1, <1>3 DEF UbxWidths
  <2>2. UbxAt(t)[p] = <<>>
    <3>1. Announced(t, p) \in Nat BY <1>3, HeaderIsThere
    <3>2. UbxWidth(t, p) # 8 + Announced(t, p) BY <3>1
    <3>3. MessageAt(t, p) = <<>> BY <3>2 DEF MessageAt
    <3> QED BY <2>1, <3>3 DEF UbxAt
  <2>3. MessagesFrom(t)[p] = <<>> \o MessagesFrom(t)[p + 1] BY <1>2, <2>1, <2>2 DEF ReadAt
  <2>4. MessagesFrom(t)[p + 1] \in Seq(UbxMessages) BY <1>1, MessagesAreMessages
  <2> HIDE DEF UbxMessages
  <2> QED BY <2>3, <2>4, ConcatEmptySeq
<1>4. CASE p + 5 > Len(t)
  <2>1. p \notin DOMAIN UbxWidths(t) /\ p + 1 \notin DOMAIN UbxWidths(t) BY <1>1, <1>4 DEF UbxWidths
  <2> QED BY <1>2, <2>1 DEF ReadAt
<1> QED BY <1>1, <1>3, <1>4

\* What the parser may hold, and the bytes behind the start of the frame it has read.
UbxStates == {"SYNC1", "SYNC2", "CLASS", "ID", "LEN1", "LEN2", "PAYLOAD", "CK_A", "CK_B"}
UbxParsers ==
    [state : UbxStates, cls : UbxBytes, id : UbxBytes, len : Nat, payload : Seq(UbxBytes),
     ckA : UbxBytes, ckB : UbxBytes, recvA : UbxBytes]
UbxHeader(q) == <<q.cls, q.id, q.len % 256, q.len \div 256>>
UbxBody(q) ==
    IF q.state = "CLASS" THEN <<>>
    ELSE IF q.state = "ID" THEN <<q.cls>>
    ELSE IF q.state = "LEN1" THEN <<q.cls, q.id>>
    ELSE IF q.state = "LEN2" THEN <<q.cls, q.id, q.len>>
    ELSE UbxHeader(q) \o q.payload

InHeader == {"CLASS", "ID", "LEN1", "LEN2"}
InFrame == {"PAYLOAD", "CK_A", "CK_B"}

\* The length n, in state st with a payload of k bytes.
LengthFits(st, n, k) ==
    /\ st = "LEN2" => n \in UbxBytes
    /\ st \in InFrame => /\ n % 256 \in UbxBytes /\ n \div 256 \in UbxBytes /\ n <= MAX_LEN
                         /\ n = (n % 256) + 256 * (n \div 256)
    /\ st = "PAYLOAD" => k < n
    /\ st \in {"CK_A", "CK_B"} => k = n

\* The checksum and the length fit what was read.
UbxSound(q) ==
    /\ q.state # "CLASS" => <<q.ckA, q.ckB>> = CheckSum(UbxBody(q))
    /\ LengthFits(q.state, q.len, Len(q.payload))

\* The bytes s have a frame at p, and body behind its start.
UbxHeld(s, p, body) ==
    /\ s[p] = SYNC_1 /\ s[p + 1] = SYNC_2
    /\ \A k \in 1..Len(body) : s[p + 1 + k] = body[k]

\* The parser q has read the bytes s, has given the messages out, and is at a frame that begins at p.
UbxIsAt(s, out, p, q) ==
    /\ p \in 1..(Len(s) + 1) /\ UbxReached(s, out, p)
    /\ \/ q.state = "SYNC1" /\ p = Len(s) + 1
       \/ q.state = "SYNC2" /\ p = Len(s) /\ s[p] = SYNC_1
       \/ /\ q.state \in InHeader \union {"PAYLOAD", "CK_A"} /\ UbxSound(q) /\ UbxHeld(s, p, UbxBody(q))
          /\ Len(s) = p + 1 + Len(UbxBody(q))
       \/ /\ q.state = "CK_B" /\ UbxSound(q) /\ UbxHeld(s, p, UbxBody(q))
          /\ Len(s) = p + 2 + Len(UbxBody(q)) /\ s[Len(s)] = q.recvA

LEMMA HeldStays ==
    ASSUME NEW s \in Seq(UbxBytes), NEW p \in Nat \ {0}, NEW body \in Seq(UbxBytes), UbxHeld(s, p, body),
           p + 1 + Len(body) <= Len(s), NEW t, UbxBegins(t, s)
    PROVE  UbxHeld(t, p, body)
<1>1. Len(s) \in Nat /\ Len(body) \in Nat /\ \A i \in 1..Len(s) : t[i] = s[i] BY DEF UbxBegins
<1>2. p \in 1..Len(s) /\ p + 1 \in 1..Len(s) /\ \A k \in 1..Len(body) : p + 1 + k \in 1..Len(s) BY <1>1
<1> QED BY <1>1, <1>2 DEF UbxHeld

LEMMA AppendBegins ==
    ASSUME NEW s \in Seq(UbxBytes), NEW b \in UbxBytes
    PROVE  UbxBegins(s, s) /\ UbxBegins(Append(s, b), s) /\ Append(s, b) \in Seq(UbxBytes)
BY DEF UbxBegins

LEMMA HeldGrows ==
    ASSUME NEW s \in Seq(UbxBytes), NEW b \in UbxBytes, NEW p \in Nat \ {0}, NEW body \in Seq(UbxBytes),
           UbxHeld(s, p, body), Len(s) = p + 1 + Len(body)
    PROVE  UbxHeld(Append(s, b), p, Append(body, b)) /\ Len(Append(s, b)) = p + 1 + Len(Append(body, b))
<1> DEFINE t == Append(s, b)
           m == Append(body, b)
           n == Len(body)
<1>1. /\ n \in Nat /\ Len(s) \in Nat /\ Len(m) = n + 1 /\ m[n + 1] = b /\ \A k \in 1..n : m[k] = body[k]
      /\ Len(t) = Len(s) + 1 /\ t[Len(s) + 1] = b
  OBVIOUS
<1>2. UbxHeld(t, p, body) BY <1>1, AppendBegins, HeldStays
<1> HIDE DEF t, m
<1>3. \A k \in 1..(n + 1) : t[p + 1 + k] = m[k]
  <2>1. \A k \in 1..n : t[p + 1 + k] = m[k] BY <1>1, <1>2 DEF UbxHeld
  <2>2. p + 1 + (n + 1) = Len(s) + 1 BY <1>1
  <2>3. t[p + 1 + (n + 1)] = m[n + 1] BY <1>1, <2>2
  <2> HIDE DEF n
  <2>4. \A k \in 1..(n + 1) : k \in 1..n \/ k = n + 1 BY <1>1
  <2> QED BY <2>1, <2>3, <2>4
<1>4. t[p] = SYNC_1 /\ t[p + 1] = SYNC_2 BY <1>2 DEF UbxHeld
<1>5. UbxHeld(t, p, m) BY <1>1, <1>3, <1>4 DEF UbxHeld
<1>6. Len(t) = p + 1 + Len(m) BY <1>1
<1> QED BY <1>5, <1>6 DEF t, m

LEMMA UbxWrapsToByte == 0 \in UbxBytes /\ \A a \in Nat : Byte(a) \in UbxBytes
BY SMT DEF UbxBytes, Byte

LEMMA AddedAreBytes == ASSUME NEW a \in UbxBytes, NEW c \in UbxBytes, NEW b \in UbxBytes
                       PROVE  Byte(a + b) \in UbxBytes /\ Byte(c + Byte(a + b)) \in UbxBytes
<1>1. a + b \in Nat BY UbxBytesAreNumbers
<1>2. Byte(a + b) \in UbxBytes BY <1>1, UbxWrapsToByte
<1>3. c + Byte(a + b) \in Nat BY <1>2, UbxBytesAreNumbers
<1> QED BY <1>2, <1>3, UbxWrapsToByte

LEMMA BodyIsBytes == ASSUME NEW q \in UbxParsers, q.state \in InHeader \union InFrame, UbxSound(q)
                     PROVE  UbxBody(q) \in Seq(UbxBytes)
<1>1. q.cls \in UbxBytes /\ q.id \in UbxBytes /\ q.payload \in Seq(UbxBytes) BY DEF UbxParsers
<1>2. /\ <<>> \in Seq(UbxBytes) /\ \A a \in UbxBytes : <<a>> \in Seq(UbxBytes)
      /\ \A a, b \in UbxBytes : <<a, b>> \in Seq(UbxBytes)
      /\ \A a, b, c \in UbxBytes : <<a, b, c>> \in Seq(UbxBytes)
      /\ \A a, b, c, d \in UbxBytes : <<a, b, c, d>> \in Seq(UbxBytes)
  OBVIOUS
<1>3. CASE q.state \in InFrame
  <2>1. UbxBody(q) = UbxHeader(q) \o q.payload BY <1>3 DEF UbxBody, InFrame
  <2>2. q.len % 256 \in UbxBytes /\ q.len \div 256 \in UbxBytes BY <1>3 DEF UbxSound, LengthFits
  <2>3. UbxHeader(q) \in Seq(UbxBytes) BY <1>1, <1>2, <2>2 DEF UbxHeader
  <2> QED BY <1>1, <2>1, <2>3, ConcatProperties
<1>4. CASE q.state \in InHeader
  <2>1. q.state = "LEN2" => q.len \in UbxBytes BY DEF UbxSound, LengthFits
  <2> QED BY <1>1, <1>2, <1>4, <2>1 DEF UbxBody, InHeader
<1> QED BY <1>3, <1>4

\* The fields of the parser in one record.
LEMMA UbxParserIsParser ==
    \A st \in UbxStates, c, i, a1, a2, r \in UbxBytes, n \in Nat, pl \in Seq(UbxBytes) :
        [state |-> st, cls |-> c, id |-> i, len |-> n, payload |-> pl, ckA |-> a1, ckB |-> a2, recvA |-> r] \in UbxParsers
BY DEF UbxParsers

\* A byte inside a frame, before its checksum, is added to the body and to the sums.
LEMMA BodyGrows ==
    ASSUME NEW q \in UbxParsers, NEW b \in UbxBytes, UbxSound(q), q.state \in InHeader \union {"PAYLOAD"},
           q.state = "LEN2" => q.len + 256 * b <= MAX_LEN
    PROVE  /\ Fed(q, b) \in UbxParsers /\ Completed(q, b) = <<>>
           /\ Fed(q, b).state \in InHeader \union {"PAYLOAD", "CK_A"} /\ Fed(q, b).state # "CLASS"
           /\ UbxBody(Fed(q, b)) = Append(UbxBody(q), b)
           /\ UbxSound(Fed(q, b))
<1> DEFINE q2 == Fed(q, b)
<1>1. /\ q.cls \in UbxBytes /\ q.id \in UbxBytes /\ q.len \in Nat /\ q.payload \in Seq(UbxBytes)
      /\ q.ckA \in UbxBytes /\ q.ckB \in UbxBytes /\ q.recvA \in UbxBytes
      /\ q = [state |-> q.state, cls |-> q.cls, id |-> q.id, len |-> q.len, payload |-> q.payload,
              ckA |-> q.ckA, ckB |-> q.ckB, recvA |-> q.recvA]
  BY DEF UbxParsers
<1>2. Completed(q, b) = <<>> BY DEF Completed, InHeader
<1>3. MAX_LEN \in Nat BY UbxParserAssumption
<1> DEFINE ckA == IF q.state = "CLASS" THEN 0 ELSE q.ckA
           ckB == IF q.state = "CLASS" THEN 0 ELSE q.ckB
           sumA == Byte(ckA + b)
           sumB == Byte(ckB + sumA)
<1>4. ckA \in UbxBytes /\ ckB \in UbxBytes BY <1>1, UbxWrapsToByte
<1>5. sumA \in UbxBytes /\ sumB \in UbxBytes
  <2> HIDE DEF ckA, ckB
  <2> QED BY <1>4, AddedAreBytes
<1>6. UbxBody(q) \in Seq(UbxBytes) BY BodyIsBytes DEF InFrame
<1>7. CheckSum(Append(UbxBody(q), b)) = <<sumA, sumB>>
  <2>1. CheckSum(UbxBody(q)) = <<ckA, ckB>>
    <3>1. CASE q.state = "CLASS" BY <3>1, CheckSumOfNothing DEF UbxBody
    <3>2. CASE q.state # "CLASS" BY <3>2 DEF UbxSound, LengthFits
    <3> QED BY <3>1, <3>2
  <2>2. CheckSum(Append(UbxBody(q), b)) = Added(CheckSum(UbxBody(q)), b) BY <1>6, CheckSumGrows
  <2> HIDE DEF ckA, ckB
  <2> QED BY <2>1, <2>2 DEF Added
<1> HIDE DEF sumA, sumB
\* What is left to show, once the fields of the new state are known.
<1> DEFINE Inside == {"ID", "LEN1", "LEN2", "PAYLOAD", "CK_A"}
<1>8. ASSUME NEW st \in Inside, NEW c \in UbxBytes, NEW i \in UbxBytes, NEW n \in Nat, NEW pl \in Seq(UbxBytes),
             q2 = [state |-> st, cls |-> c, id |-> i, len |-> n, payload |-> pl,
                   ckA |-> sumA, ckB |-> sumB, recvA |-> q.recvA],
             UbxBody(q2) = Append(UbxBody(q), b), LengthFits(st, n, Len(pl))
      PROVE  /\ q2 \in UbxParsers /\ q2.state \in InHeader \union {"PAYLOAD", "CK_A"} /\ q2.state # "CLASS"
             /\ UbxBody(q2) = Append(UbxBody(q), b) /\ UbxSound(q2)
  <2> HIDE DEF q2
  <2>1. st \in UbxStates /\ st \in InHeader \union {"PAYLOAD", "CK_A"} /\ st # "CLASS"
    BY DEF Inside, UbxStates, InHeader
  <2>2. q.recvA \in UbxBytes BY <1>1
  <2>3. q2 \in UbxParsers BY <1>5, <1>8, <2>1, <2>2, UbxParserIsParser, ZenonT(60)
  <2>4. /\ q2.state = st /\ q2.len = n /\ q2.payload = pl /\ q2.ckA = sumA /\ q2.ckB = sumB
    BY <1>8
  <2>5. <<q2.ckA, q2.ckB>> = CheckSum(UbxBody(q2)) BY <1>7, <1>8, <2>4
  <2>6. UbxSound(q2) BY <1>8, <2>4, <2>5 DEF UbxSound
  <2> QED BY <1>8, <2>1, <2>3, <2>4, <2>6
<1>9. CASE q.state = "CLASS"
  <2>1. q2 = [state |-> "ID", cls |-> b, id |-> q.id, len |-> q.len, payload |-> q.payload,
              ckA |-> sumA, ckB |-> sumB, recvA |-> q.recvA]
    BY <1>1, <1>9 DEF Fed, Updated, sumA, sumB
  <2> HIDE DEF q2
  <2>2. UbxBody(q2) = <<b>> BY <2>1 DEF UbxBody
  <2>3. UbxBody(q) = <<>> BY <1>9 DEF UbxBody
  <2>4. UbxBody(q2) = Append(UbxBody(q), b) BY <2>2, <2>3
  <2>5. "ID" \in Inside /\ LengthFits("ID", q.len, Len(q.payload)) BY DEF InFrame, LengthFits
  <2> QED BY <1>1, <1>2, <1>8, <2>1, <2>4, <2>5 DEF q2
<1>10. CASE q.state = "ID"
  <2>1. q2 = [state |-> "LEN1", cls |-> q.cls, id |-> b, len |-> q.len, payload |-> q.payload,
              ckA |-> sumA, ckB |-> sumB, recvA |-> q.recvA]
    BY <1>1, <1>10 DEF Fed, Updated, sumA, sumB
  <2> HIDE DEF q2
  <2>2. UbxBody(q2) = <<q.cls, b>> BY <2>1 DEF UbxBody
  <2>3. UbxBody(q) = <<q.cls>> BY <1>10 DEF UbxBody
  <2>4. UbxBody(q2) = Append(UbxBody(q), b) BY <2>2, <2>3
  <2>5. "LEN1" \in Inside /\ LengthFits("LEN1", q.len, Len(q.payload)) BY DEF InFrame, LengthFits
  <2> QED BY <1>1, <1>2, <1>8, <2>1, <2>4, <2>5 DEF q2
<1>11. CASE q.state = "LEN1"
  <2>1. q2 = [state |-> "LEN2", cls |-> q.cls, id |-> q.id, len |-> b, payload |-> q.payload,
              ckA |-> sumA, ckB |-> sumB, recvA |-> q.recvA]
    BY <1>1, <1>11 DEF Fed, Updated, sumA, sumB
  <2> HIDE DEF q2
  <2>2. UbxBody(q2) = <<q.cls, q.id, b>> BY <2>1 DEF UbxBody
  <2>3. UbxBody(q) = <<q.cls, q.id>> BY <1>11 DEF UbxBody
  <2>4. UbxBody(q2) = Append(UbxBody(q), b) BY <2>2, <2>3
  <2>5. "LEN2" \in Inside /\ LengthFits("LEN2", b, Len(q.payload)) BY DEF InFrame, LengthFits
  <2>6. b \in Nat BY UbxBytesAreNumbers
  <2> QED BY <1>1, <1>2, <1>8, <2>1, <2>4, <2>5, <2>6 DEF q2
<1>12. CASE q.state = "LEN2"
  <2> DEFINE n == q.len + 256 * b
             st == IF n = 0 THEN "CK_A" ELSE "PAYLOAD"
  <2>1. q.len \in UbxBytes /\ n <= MAX_LEN BY <1>12 DEF UbxSound, LengthFits
  <2>2. n \in Nat /\ n % 256 = q.len /\ n \div 256 = b
    <3> DEFINE x == q.len
    <3>1. x \in 0..255 /\ b \in 0..255 BY <2>1 DEF UbxBytes
    <3> HIDE DEF x
    <3>2. x + 256 * b \in Nat /\ (x + 256 * b) % 256 = x /\ (x + 256 * b) \div 256 = b BY <3>1, SMTT(30)
    <3> QED BY <3>2 DEF x
  <2>3. q2 = [state |-> st, cls |-> q.cls, id |-> q.id, len |-> n, payload |-> <<>>,
              ckA |-> sumA, ckB |-> sumB, recvA |-> q.recvA]
    <3>1. ~(n > MAX_LEN) BY <1>3, <2>1, <2>2
    <3>2. q2 = [Updated(q, b) EXCEPT !.len = n, !.payload = <<>>, !.state = st] BY <1>12, <3>1 DEF Fed, AfterLength
    <3>3. Updated(q, b) = [q EXCEPT !.ckA = sumA, !.ckB = sumB] BY <1>12 DEF Updated, sumA, sumB
    <3> HIDE DEF q2, n, st
    <3> QED BY <1>1, <3>2, <3>3
  <2> HIDE DEF q2, n
  <2>4. UbxBody(q2) = <<q.cls, q.id, q.len, b>> \o <<>>
    <3>1. /\ q2.state \notin InHeader /\ q2.cls = q.cls /\ q2.id = q.id /\ q2.len = n /\ q2.payload = <<>>
      BY <2>3 DEF InHeader
    <3>2. UbxBody(q2) = UbxHeader(q2) \o q2.payload BY <3>1 DEF UbxBody, InHeader
    <3> QED BY <2>2, <3>1, <3>2 DEF UbxHeader
  <2>5. UbxBody(q) = <<q.cls, q.id, q.len>> BY <1>12 DEF UbxBody
  <2>6. UbxBody(q2) = Append(UbxBody(q), b) BY <2>4, <2>5
  <2>7. st \in Inside /\ (st = "PAYLOAD" => 0 < n) /\ (st = "CK_A" => 0 = n) /\ st \notin {"LEN2", "CK_B"} BY <2>2
  <2>8. Len(<<>>) = 0 /\ <<>> \in Seq(UbxBytes) /\ q.cls \in UbxBytes /\ q.id \in UbxBytes BY <1>1
  <2>9. n = (n % 256) + 256 * (n \div 256) /\ n % 256 \in UbxBytes /\ n \div 256 \in UbxBytes
    BY <2>1, <2>2 DEF n
  <2> HIDE DEF st, Inside
  <2>10. LengthFits(st, n, Len(<<>>)) BY <2>1, <2>7, <2>8, <2>9 DEF LengthFits
  <2>11. /\ q2 \in UbxParsers /\ q2.state \in InHeader \union {"PAYLOAD", "CK_A"} /\ q2.state # "CLASS"
         /\ UbxBody(q2) = Append(UbxBody(q), b) /\ UbxSound(q2)
    BY <1>8, <2>2, <2>3, <2>6, <2>7, <2>8, <2>10, ZenonT(60)
  <2> QED BY <1>2, <2>11 DEF q2
<1>13. CASE q.state = "PAYLOAD"
  <2> DEFINE pl == Append(q.payload, b)
             m == Len(q.payload)
             st == IF m + 1 = q.len THEN "CK_A" ELSE "PAYLOAD"
  <2>1. /\ q.len % 256 \in UbxBytes /\ q.len \div 256 \in UbxBytes /\ q.len <= MAX_LEN
        /\ q.len = (q.len % 256) + 256 * (q.len \div 256) /\ m < q.len
    BY <1>13 DEF UbxSound, LengthFits, InFrame
  <2>2. m \in Nat /\ pl \in Seq(UbxBytes) /\ Len(pl) = m + 1 BY <1>1
  <2>3. q2 = [state |-> st, cls |-> q.cls, id |-> q.id, len |-> q.len, payload |-> pl,
              ckA |-> sumA, ckB |-> sumB, recvA |-> q.recvA]
    <3>1. Updated(q, b) = [q EXCEPT !.ckA = sumA, !.ckB = sumB] BY <1>13 DEF Updated, sumA, sumB
    <3>2. Updated(q, b) = [state |-> "PAYLOAD", cls |-> q.cls, id |-> q.id, len |-> q.len, payload |-> q.payload,
                           ckA |-> sumA, ckB |-> sumB, recvA |-> q.recvA]
      BY <1>1, <1>13, <3>1
    <3>3. q2 = [Updated(q, b) EXCEPT !.payload = Append(@, b), !.state = IF m + 1 = q.len THEN "CK_A" ELSE @]
      BY <1>13 DEF Fed
    <3> DEFINE u == Updated(q, b)
    <3> HIDE DEF q2, m, u
    <3>4. q2 = [u EXCEPT !.payload = pl, !.state = st]
      <4>1. u.payload = q.payload /\ u.state = "PAYLOAD" BY <3>2 DEF u
      <4> QED BY <3>3, <4>1 DEF u
    <3> HIDE DEF pl, st
    <3>5. u = [state |-> "PAYLOAD", cls |-> q.cls, id |-> q.id, len |-> q.len, payload |-> q.payload,
               ckA |-> sumA, ckB |-> sumB, recvA |-> q.recvA]
      BY <3>2 DEF u
    <3> QED BY <3>4, <3>5
  <2> HIDE DEF q2, m, pl
  <2>4. UbxBody(q) = UbxHeader(q) \o q.payload BY <1>13 DEF UbxBody
  <2>5. UbxBody(q2) = UbxHeader(q) \o pl
    <3>1. /\ q2.state \notin InHeader /\ q2.cls = q.cls /\ q2.id = q.id /\ q2.len = q.len /\ q2.payload = pl
      BY <2>3 DEF InHeader
    <3>2. UbxBody(q2) = UbxHeader(q2) \o q2.payload BY <3>1 DEF UbxBody, InHeader
    <3> QED BY <3>1, <3>2 DEF UbxHeader
  <2>6. UbxBody(q2) = Append(UbxBody(q), b)
    <3>1. UbxHeader(q) \in Seq(UbxBytes) BY <1>1, <2>1 DEF UbxHeader
    <3> DEFINE h == UbxHeader(q)
    <3> HIDE DEF h
    <3>2. h \in Seq(UbxBytes) BY <3>1 DEF h
    <3>3. <<b>> \in Seq(UbxBytes) /\ pl = q.payload \o <<b>> BY <1>1, AppendIsConcat DEF pl
    <3>4. h \o q.payload \in Seq(UbxBytes) BY <1>1, <3>2, ConcatProperties
    <3>5. Append(h \o q.payload, b) = (h \o q.payload) \o <<b>> BY <3>4, AppendIsConcat
    <3>6. (h \o q.payload) \o <<b>> = h \o (q.payload \o <<b>>) BY <1>1, <3>2, <3>3, ConcatAssociative
    <3> QED BY <2>4, <2>5, <3>3, <3>5, <3>6 DEF h
  <2>7. q.cls \in UbxBytes /\ q.id \in UbxBytes /\ q.len \in Nat BY <1>1
  <2>8. /\ st \in Inside /\ (st = "PAYLOAD" => Len(pl) < q.len) /\ (st = "CK_A" => Len(pl) = q.len)
        /\ st \notin {"LEN2", "CK_B"}
    BY <2>1, <2>2, <2>7
  <2> HIDE DEF st, Inside
  <2>9. LengthFits(st, q.len, Len(pl)) BY <2>1, <2>8 DEF LengthFits
  <2>10. /\ q2 \in UbxParsers /\ q2.state \in InHeader \union {"PAYLOAD", "CK_A"} /\ q2.state # "CLASS"
         /\ UbxBody(q2) = Append(UbxBody(q), b) /\ UbxSound(q2)
    BY <1>8, <2>2, <2>3, <2>6, <2>7, <2>8, <2>9, ZenonT(60)
  <2> QED BY <1>2, <2>10 DEF q2
<1> QED BY <1>9, <1>10, <1>11, <1>12, <1>13 DEF InHeader

\* A run of bytes at a place of another.
LEMMA RunOfBytes ==
    ASSUME NEW t \in Seq(UbxBytes), NEW a \in Nat \ {0}, NEW run \in Seq(UbxBytes), NEW c \in Int,
           c = a + Len(run) - 1, c <= Len(t), \A k \in 1..Len(run) : t[a + k - 1] = run[k]
    PROVE  SubSeq(t, a, c) = run
<1> DEFINE n == Len(run)
           u == SubSeq(t, a, c)
<1>1. n \in Nat /\ Len(t) \in Nat /\ c = a + n - 1 OBVIOUS
<1>2. \A i \in a..c : t[i] \in UbxBytes
  <2> HIDE DEF n
  <2>1. \A i \in a..c : i \in 1..Len(t) BY <1>1
  <2> QED BY <2>1, ElementOfSeq
<1>3. /\ u \in Seq(UbxBytes) /\ Len(u) = IF a <= c THEN c - a + 1 ELSE 0
      /\ \A i \in 1..(c - a + 1) : u[i] = t[a + i - 1]
  BY <1>2, SubSeqProperties
<1>4. Len(u) = n /\ c - a + 1 = n
  <2> HIDE DEF n, u
  <2> QED BY <1>1, <1>3
<1>5. \A i \in 1..n : u[i] = run[i]
  <2> HIDE DEF u
  <2> QED BY <1>3, <1>4
<1> HIDE DEF u
<1> QED BY <1>3, <1>4, <1>5, SeqEqual DEF u

\* A frame of which the header was read.
LEMMA HeaderIsKnown ==
    ASSUME NEW q \in UbxParsers, q.state \in InFrame, UbxSound(q), NEW t, NEW p \in Nat \ {0}, UbxHeld(t, p, UbxBody(q))
    PROVE  /\ Len(UbxBody(q)) = 4 + Len(q.payload) /\ Len(q.payload) \in Nat
           /\ t[p + 2] = q.cls /\ t[p + 3] = q.id
           /\ Announced(t, p) = q.len /\ UbxWidth(t, p) = 8 + q.len
           /\ \A k \in 1..Len(q.payload) : t[p + 6 + k - 1] = q.payload[k]
<1> DEFINE n == Len(q.payload)
<1>1. /\ q.cls \in UbxBytes /\ q.id \in UbxBytes /\ q.payload \in Seq(UbxBytes) /\ n \in Nat /\ q.len \in Nat
      /\ MAX_LEN \in Nat
  BY UbxParserAssumption DEF UbxParsers
<1>2. UbxBody(q) = UbxHeader(q) \o q.payload BY DEF UbxBody, InFrame
<1>3. /\ q.len % 256 \in UbxBytes /\ q.len \div 256 \in UbxBytes /\ q.len <= MAX_LEN
      /\ q.len = (q.len % 256) + 256 * (q.len \div 256)
  BY DEF UbxSound, LengthFits
<1>4. /\ UbxHeader(q) \in Seq(UbxBytes) /\ Len(UbxHeader(q)) = 4
      /\ UbxHeader(q)[1] = q.cls /\ UbxHeader(q)[2] = q.id
      /\ UbxHeader(q)[3] = q.len % 256 /\ UbxHeader(q)[4] = q.len \div 256
  BY <1>1, <1>3 DEF UbxHeader
<1> DEFINE h == UbxHeader(q)
           body == UbxBody(q)
<1> HIDE DEF h, body, n
<1>5. Len(body) = 4 + n /\ (\A k \in 1..4 : body[k] = h[k]) /\ \A k \in 1..n : body[4 + k] = q.payload[k]
  <2>1. h \in Seq(UbxBytes) /\ Len(h) = 4 /\ body = h \o q.payload BY <1>2, <1>4 DEF h, body
  <2> DEFINE d == q.payload
  <2>2. Len(d) = n /\ d \in Seq(UbxBytes) BY <1>1 DEF n
  <2> HIDE DEF d
  <2>3. /\ Len(h \o d) = Len(h) + Len(d)
        /\ \A i \in 1..(Len(h) + Len(d)) : (h \o d)[i] = IF i <= Len(h) THEN h[i] ELSE d[i - Len(h)]
    BY <2>1, <2>2, ConcatProperties
  <2>4. body = h \o d BY <2>1 DEF d
  <2>5. Len(body) = 4 + n BY <2>1, <2>2, <2>3, <2>4
  <2>6. \A k \in 1..(4 + n) : body[k] = IF k <= 4 THEN h[k] ELSE d[k - 4] BY <2>1, <2>2, <2>3, <2>4
  <2>7. \A k \in 1..4 : k \in 1..(4 + n) /\ k <= 4 BY <1>1
  <2>8. \A k \in 1..n : 4 + k \in 1..(4 + n) /\ ~(4 + k <= 4) /\ 4 + k - 4 = k BY <1>1
  <2>9. \A k \in 1..n : body[4 + k] = d[k] BY <2>6, <2>8
  <2> QED BY <2>5, <2>6, <2>7, <2>9 DEF d
<1>6. t[p] = SYNC_1 /\ t[p + 1] = SYNC_2 /\ \A k \in 1..(4 + n) : t[p + 1 + k] = body[k] BY <1>5 DEF UbxHeld, body
<1>7. t[p + 2] = q.cls /\ t[p + 3] = q.id /\ t[p + 4] = q.len % 256 /\ t[p + 5] = q.len \div 256
  <2>1. 1 \in 1..4 /\ 2 \in 1..4 /\ 3 \in 1..4 /\ 4 \in 1..4 OBVIOUS
  <2>2. 1 \in 1..(4 + n) /\ 2 \in 1..(4 + n) /\ 3 \in 1..(4 + n) /\ 4 \in 1..(4 + n) BY <1>1
  <2>3. p + 1 + 1 = p + 2 /\ p + 1 + 2 = p + 3 /\ p + 1 + 3 = p + 4 /\ p + 1 + 4 = p + 5 OBVIOUS
  <2>4. body[1] = q.cls /\ body[2] = q.id /\ body[3] = q.len % 256 /\ body[4] = q.len \div 256
    BY <1>4, <1>5, <2>1 DEF h
  <2> QED BY <1>6, <2>2, <2>3, <2>4
<1>8. Announced(t, p) = q.len BY <1>3, <1>7 DEF Announced
<1>9. UbxWidth(t, p) = 8 + q.len
  <2>1. ~(q.len > MAX_LEN) BY <1>1, <1>3
  <2> QED BY <1>6, <1>8, <2>1 DEF UbxWidth
<1>10. \A k \in 1..n : t[p + 6 + k - 1] = q.payload[k]
  <2>1. \A k \in 1..n : 4 + k \in 1..(4 + n) /\ p + 6 + k - 1 = p + 1 + (4 + k) BY <1>1
  <2> QED BY <1>5, <1>6, <2>1
<1> QED BY <1>1, <1>5, <1>7, <1>8, <1>9, <1>10 DEF body, n

\* A whole frame but for its checksum.
LEMMA MessageIsKnown ==
    ASSUME NEW q \in UbxParsers, q.state = "CK_B", UbxSound(q), NEW t \in Seq(UbxBytes), NEW p \in Nat \ {0},
           UbxHeld(t, p, UbxBody(q)), p + 7 + q.len <= Len(t), t[p + 6 + q.len] = q.recvA, NEW b, t[p + 7 + q.len] = b
    PROVE  UbxWidth(t, p) = 8 + q.len /\ MessageAt(t, p) = Completed(q, b)
<1> DEFINE n == q.len
<1>1. n \in Nat /\ Len(q.payload) = n /\ q.payload \in Seq(UbxBytes) BY DEF UbxParsers, UbxSound, LengthFits
<1>2. q.state \in InFrame /\ q.state \in InHeader \union InFrame BY DEF InFrame
<1>3. /\ Len(UbxBody(q)) = 4 + n /\ t[p + 2] = q.cls /\ t[p + 3] = q.id
      /\ Announced(t, p) = n /\ UbxWidth(t, p) = 8 + n
      /\ \A k \in 1..n : t[p + 6 + k - 1] = q.payload[k]
  <2>1. /\ Len(UbxBody(q)) = 4 + Len(q.payload) /\ t[p + 2] = q.cls /\ t[p + 3] = q.id
        /\ Announced(t, p) = q.len /\ UbxWidth(t, p) = 8 + q.len
        /\ \A k \in 1..Len(q.payload) : t[p + 6 + k - 1] = q.payload[k]
    BY <1>2, HeaderIsKnown, ZenonT(60)
  <2> QED BY <1>1, <2>1
<1>4. UbxBody(q) \in Seq(UbxBytes) BY <1>2, BodyIsBytes
<1>5. SubSeq(t, p + 2, p + 5 + n) = UbxBody(q)
  <2> DEFINE body == UbxBody(q)
  <2>1. body \in Seq(UbxBytes) /\ Len(body) = 4 + n /\ \A k \in 1..Len(body) : t[p + 1 + k] = body[k]
    BY <1>3, <1>4 DEF UbxHeld
  <2> HIDE DEF body, n
  <2>2. \A k \in 1..Len(body) : p + 2 + k - 1 = p + 1 + k BY <1>1, <2>1
  <2>3. p + 5 + n = p + 2 + Len(body) - 1 /\ p + 2 \in Nat \ {0} /\ p + 5 + n \in Int BY <1>1, <2>1
  <2>4. p + 5 + n <= Len(t)
    <3>1. p + 7 + n <= Len(t) /\ Len(t) \in Nat BY DEF n
    <3> QED BY <1>1, <3>1
  <2>5. \A k \in 1..Len(body) : t[p + 2 + k - 1] = body[k] BY <2>1, <2>2
  <2>6. SubSeq(t, p + 2, p + 5 + n) = body BY <2>1, <2>3, <2>4, <2>5, RunOfBytes
  <2> QED BY <2>6 DEF body
<1>6. SubSeq(t, p + 6, p + 5 + n) = q.payload
  <2> HIDE DEF n
  <2>1. p + 5 + n = p + 6 + n - 1 /\ p + 6 \in Nat \ {0} /\ p + 5 + n \in Int BY <1>1
  <2>2. p + 5 + n <= Len(t)
    <3>1. p + 7 + n <= Len(t) /\ Len(t) \in Nat BY DEF n
    <3> QED BY <1>1, <3>1
  <2> DEFINE d == q.payload
  <2>3. d \in Seq(UbxBytes) /\ Len(d) = n /\ \A k \in 1..Len(d) : t[p + 6 + k - 1] = d[k] BY <1>1, <1>3
  <2> HIDE DEF d
  <2>4. p + 5 + n = p + 6 + Len(d) - 1 BY <2>1, <2>3
  <2>5. SubSeq(t, p + 6, p + 5 + n) = d BY <2>1, <2>2, <2>3, <2>4, RunOfBytes
  <2> QED BY <2>5 DEF d
<1>7. CheckSum(UbxBody(q)) = <<q.ckA, q.ckB>> BY DEF UbxSound, LengthFits
<1>8. MessageAt(t, p) = IF <<q.ckA, q.ckB>> = <<q.recvA, b>>
                        THEN <<[cls |-> q.cls, id |-> q.id, payload |-> q.payload]>> ELSE <<>>
  <2>1. t[p + 6 + n] = q.recvA /\ t[p + 7 + n] = b OBVIOUS
  <2> HIDE DEF n
  <2> QED BY <1>3, <1>5, <1>6, <1>7, <2>1 DEF MessageAt
<1>9. <<q.ckA, q.ckB>> = <<q.recvA, b>> <=> q.recvA = q.ckA /\ b = q.ckB OBVIOUS
<1> QED BY <1>3, <1>8, <1>9 DEF Completed

\* One byte after the other: the place moves behind what has been read, or stays at the frame begun.
LEMMA UbxFeedKeeps ==
    ASSUME NEW s \in Seq(UbxBytes), NEW out \in Seq(UbxMessages), NEW q \in UbxParsers, NEW b \in UbxBytes,
           NEW p, UbxIsAt(s, out, p, q)
    PROVE  /\ Fed(q, b) \in UbxParsers /\ Completed(q, b) \in Seq(UbxMessages)
           /\ \E p2 : UbxIsAt(Append(s, b), out \o Completed(q, b), p2, Fed(q, b))
<1> DEFINE s2 == Append(s, b)
           q2 == Fed(q, b)
           l == Len(s)
<1>1. /\ l \in Nat /\ p \in 1..(l + 1) /\ UbxReached(s, out, p) /\ p \in Nat \ {0}
      /\ s2 \in Seq(UbxBytes) /\ Len(s2) = l + 1 /\ s2[l + 1] = b /\ \A i \in 1..l : s2[i] = s[i]
  <2>1. p \in 1..(l + 1) /\ UbxReached(s, out, p) /\ l \in Nat BY DEF UbxIsAt
  <2>2. s2 \in Seq(UbxBytes) /\ Len(s2) = l + 1 /\ s2[l + 1] = b /\ \A i \in 1..l : s2[i] = s[i] OBVIOUS
  <2> HIDE DEF s2, l
  <2> QED BY <2>1, <2>2
<1>2. /\ q.cls \in UbxBytes /\ q.id \in UbxBytes /\ q.len \in Nat /\ q.payload \in Seq(UbxBytes)
      /\ q.ckA \in UbxBytes /\ q.ckB \in UbxBytes /\ q.recvA \in UbxBytes
      /\ q = [state |-> q.state, cls |-> q.cls, id |-> q.id, len |-> q.len, payload |-> q.payload,
              ckA |-> q.ckA, ckB |-> q.ckB, recvA |-> q.recvA]
  BY DEF UbxParsers
<1>3. /\ UbxReached(s2, out, p) /\ out \o <<>> = out /\ <<>> \in Seq(UbxMessages)
      /\ UbxBegins(s2, s)
      /\ \A t : UbxBegins(t, s2) => /\ t \in Seq(UbxBytes) /\ Len(t) \in Nat /\ l + 1 <= Len(t) /\ t[l + 1] = b
                                    /\ UbxBegins(t, s) /\ \A i \in 1..l : t[i] = s[i]
  <2>1. UbxReached(s2, out, p) BY <1>1, UbxReachedStays
  <2>2. out \o <<>> = out /\ <<>> \in Seq(UbxMessages)
    <3> HIDE DEF UbxMessages
    <3> QED BY ConcatEmptySeq
  <2>3. ASSUME NEW t, UbxBegins(t, s2)
        PROVE  /\ t \in Seq(UbxBytes) /\ Len(t) \in Nat /\ l + 1 <= Len(t) /\ t[l + 1] = b
               /\ UbxBegins(t, s) /\ \A i \in 1..l : t[i] = s[i]
    <3>1. UbxBegins(t, s) /\ l + 1 <= Len(t) /\ t[l + 1] = b BY <2>3, UbxBeginsLess
    <3>2. t \in Seq(UbxBytes) /\ \A i \in 1..l : t[i] = s[i] BY <3>1 DEF UbxBegins
    <3> QED BY <3>1, <3>2
  <2>4. UbxBegins(s2, s) BY AppendBegins
  <2> QED BY <2>1, <2>2, <2>3, <2>4
<1>4. ASSUME NEW msgs \in Seq(UbxMessages), NEW n \in Nat, p + n <= l + 2,
             \A t : UbxBegins(t, s2) => MessagesFrom(t)[p] = msgs \o MessagesFrom(t)[p + n]
      PROVE  UbxReached(s2, out \o msgs, p + n)
  BY <1>1, <1>4, UbxReachedStep
<1> HIDE DEF s2, l, UbxMessages
<1>5. ASSUME NEW n \in Nat, p + n <= l + 2, \A t : UbxBegins(t, s2) => MessagesFrom(t)[p] = MessagesFrom(t)[p + n]
      PROVE  UbxReached(s2, out, p + n)
  <2>1. ASSUME NEW t, UbxBegins(t, s2) PROVE MessagesFrom(t)[p] = <<>> \o MessagesFrom(t)[p + n]
    <3>1. p + n \in 1..(Len(t) + 1) /\ t \in Seq(UbxBytes) BY <1>1, <1>3, <1>5, <2>1
    <3>2. MessagesFrom(t)[p + n] \in Seq(UbxMessages) BY <3>1, MessagesAreMessages
    <3>3. <<>> \o MessagesFrom(t)[p + n] = MessagesFrom(t)[p + n] BY <3>2, ConcatEmptySeq
    <3> QED BY <1>5, <2>1, <3>3
  <2>2. UbxReached(s2, out \o <<>>, p + n) BY <1>3, <1>4, <1>5, <2>1
  <2> QED BY <1>3, <2>2
<1>6. SYNC_1 \in UbxBytes /\ SYNC_2 \in UbxBytes /\ SYNC_1 # SYNC_2 BY DEF SYNC_1, SYNC_2, UbxBytes
\* A change of nothing but the state.
<1>7. ASSUME NEW st \in UbxStates, q2 = [q EXCEPT !.state = st]
      PROVE  q2 \in UbxParsers /\ q2.state = st
  <2>1. q2 = [state |-> st, cls |-> q.cls, id |-> q.id, len |-> q.len, payload |-> q.payload,
              ckA |-> q.ckA, ckB |-> q.ckB, recvA |-> q.recvA]
    BY <1>2, <1>7
  <2> HIDE DEF q2
  <2> QED BY <1>2, <2>1, UbxParserIsParser
<1>8. Reset \in UbxParsers /\ Reset.state = "SYNC1"
  <2>1. <<>> \in Seq(UbxBytes) /\ 0 \in Nat /\ "SYNC1" \in UbxStates BY DEF UbxStates
  <2>2. Reset \in UbxParsers BY <2>1, UbxWrapsToByte, UbxParserIsParser DEF Reset
  <2> QED BY <2>2 DEF Reset
<1>9. CASE q.state = "SYNC1"
  <2>1. p = l + 1 BY <1>9 DEF UbxIsAt, l, InHeader
  <2>2. Completed(q, b) = <<>> BY <1>9 DEF Completed
  <2>3. CASE b = SYNC_1
    <3>1. q2 = [q EXCEPT !.state = "SYNC2"] BY <1>9, <2>3 DEF Fed
    <3>2. q2 \in UbxParsers /\ q2.state = "SYNC2" BY <1>7, <3>1 DEF UbxStates
    <3> HIDE DEF q2
    <3>3. UbxIsAt(s2, out, p, q2) BY <1>1, <1>3, <2>1, <2>3, <3>2 DEF UbxIsAt
    <3> QED BY <1>3, <2>2, <3>2, <3>3 DEF q2, s2
  <2>4. CASE b # SYNC_1
    <3>1. q2 = q BY <1>9, <2>4 DEF Fed
    <3>2. ASSUME NEW t, UbxBegins(t, s2) PROVE MessagesFrom(t)[p] = MessagesFrom(t)[p + 1]
      <4>1. p \in 1..Len(t) /\ t[p] # SYNC_1 BY <1>1, <1>3, <2>1, <2>4, <3>2
      <4>2. UbxWidth(t, p) = 1 BY <4>1 DEF UbxWidth
      <4>3. t \in Seq(UbxBytes) BY <1>3, <3>2
      <4> QED BY <4>1, <4>2, <4>3, UbxNoiseIsSkipped
    <3>3. p + 1 <= l + 2 /\ 1 \in Nat BY <1>1, <2>1
    <3>4. UbxReached(s2, out, p + 1) BY <1>5, <3>2, <3>3
    <3>5. UbxIsAt(s2, out, p + 1, q) BY <1>1, <1>9, <2>1, <3>4 DEF UbxIsAt
    <3> QED BY <1>3, <2>2, <3>1, <3>5 DEF s2
  <2> QED BY <2>3, <2>4
<1>10. CASE q.state = "SYNC2"
  <2>1. p = l /\ s[p] = SYNC_1 /\ p \in 1..l BY <1>1, <1>10 DEF UbxIsAt, l, InHeader
  <2>2. Completed(q, b) = <<>> /\ q2 = [q EXCEPT !.state = AfterSync(b)] BY <1>10 DEF Completed, Fed
  <2>3. CASE b = SYNC_2
    <3>1. AfterSync(b) = "CLASS" BY <1>6, <2>3 DEF AfterSync
    <3>2. q2 \in UbxParsers /\ q2.state = "CLASS" BY <1>7, <2>2, <3>1 DEF UbxStates
    <3> HIDE DEF q2
    <3>3. UbxBody(q2) = <<>> BY <3>2 DEF UbxBody
    <3>4. UbxHeld(s2, p, <<>>)
      <4>1. s2[p] = SYNC_1 /\ s2[p + 1] = SYNC_2 BY <1>1, <2>1, <2>3
      <4> QED BY <4>1 DEF UbxHeld
    <3>5. UbxSound(q2) BY <3>2 DEF UbxSound, LengthFits, InFrame
    <3>6. Len(s2) = p + 1 + Len(<<>>) BY <1>1, <2>1
    <3>7. q2.state \in InHeader BY <3>2 DEF InHeader
    <3>8. UbxIsAt(s2, out, p, q2) BY <1>1, <1>3, <3>3, <3>4, <3>5, <3>6, <3>7 DEF UbxIsAt
    <3> QED BY <1>3, <2>2, <3>2, <3>8 DEF q2, s2
  <2>4. ASSUME NEW t, UbxBegins(t, s2), b # SYNC_2
        PROVE  p \in 1..Len(t) /\ MessagesFrom(t)[p] = MessagesFrom(t)[p + 1]
    <3>1. p \in 1..Len(t) /\ t[p + 1] # SYNC_2 BY <1>1, <1>3, <2>1, <2>4
    <3>2. UbxWidth(t, p) = 1 BY <3>1 DEF UbxWidth
    <3>3. t \in Seq(UbxBytes) BY <1>3, <2>4
    <3> QED BY <3>1, <3>2, <3>3, UbxNoiseIsSkipped
  <2>5. CASE b = SYNC_1
    <3>1. AfterSync(b) = "SYNC2" BY <1>6, <2>5 DEF AfterSync
    <3>2. q2 \in UbxParsers /\ q2.state = "SYNC2" BY <1>7, <2>2, <3>1 DEF UbxStates
    <3> HIDE DEF q2
    <3>3. p + 1 <= l + 2 /\ 1 \in Nat BY <1>1, <2>1
    <3>4. UbxReached(s2, out, p + 1) BY <1>5, <1>6, <2>4, <2>5, <3>3
    <3>5. UbxIsAt(s2, out, p + 1, q2) BY <1>1, <2>1, <2>5, <3>2, <3>4 DEF UbxIsAt
    <3> QED BY <1>3, <2>2, <3>2, <3>5 DEF q2, s2
  <2>6. CASE b # SYNC_1 /\ b # SYNC_2
    <3>1. AfterSync(b) = "SYNC1" BY <2>6 DEF AfterSync
    <3>2. q2 \in UbxParsers /\ q2.state = "SYNC1" BY <1>7, <2>2, <3>1 DEF UbxStates
    <3> HIDE DEF q2
    <3>3. ASSUME NEW t, UbxBegins(t, s2) PROVE MessagesFrom(t)[p] = MessagesFrom(t)[p + 2]
      <4>1. MessagesFrom(t)[p] = MessagesFrom(t)[p + 1] BY <2>4, <2>6, <3>3
      <4>2. p + 1 \in 1..Len(t) /\ t[p + 1] # SYNC_1 BY <1>1, <1>3, <2>1, <2>6, <3>3
      <4>3. UbxWidth(t, p + 1) = 1 BY <4>2 DEF UbxWidth
      <4>4. t \in Seq(UbxBytes) BY <1>3, <3>3
      <4>5. MessagesFrom(t)[p + 1] = MessagesFrom(t)[p + 1 + 1] BY <4>2, <4>3, <4>4, UbxNoiseIsSkipped
      <4>6. p + 1 + 1 = p + 2 BY <1>1
      <4> QED BY <4>1, <4>5, <4>6
    <3>4. p + 2 <= l + 2 /\ 2 \in Nat BY <1>1, <2>1
    <3>5. UbxReached(s2, out, p + 2) BY <1>5, <3>3, <3>4
    <3>6. UbxIsAt(s2, out, p + 2, q2) BY <1>1, <2>1, <3>2, <3>5 DEF UbxIsAt
    <3> QED BY <1>3, <2>2, <3>2, <3>6 DEF q2, s2
  <2> QED BY <2>3, <2>5, <2>6
<1>11. CASE q.state \in InHeader \union {"PAYLOAD"} /\ ~(q.state = "LEN2" /\ q.len + 256 * b > MAX_LEN)
  <2>1. UbxSound(q) /\ UbxHeld(s, p, UbxBody(q)) /\ l = p + 1 + Len(UbxBody(q)) BY <1>11 DEF UbxIsAt, l, InHeader
  <2>2. q.state = "LEN2" => q.len + 256 * b <= MAX_LEN
    <3> DEFINE n == q.len
    <3>1. n \in Nat /\ b \in Nat BY <1>2, UbxBytesAreNumbers
    <3> HIDE DEF n
    <3>2. n + 256 * b \in Nat BY <3>1
    <3>3. MAX_LEN \in Nat BY UbxParserAssumption
    <3>4. n + 256 * b > MAX_LEN \/ n + 256 * b <= MAX_LEN BY <3>2, <3>3
    <3> QED BY <1>11, <3>4 DEF n
  <2>3. UbxBody(q) \in Seq(UbxBytes) BY <1>11, <2>1, BodyIsBytes DEF InFrame
  <2>4. /\ q2 \in UbxParsers /\ Completed(q, b) = <<>> /\ q2.state \in InHeader \union {"PAYLOAD", "CK_A"}
        /\ UbxBody(q2) = Append(UbxBody(q), b) /\ UbxSound(q2)
    BY <1>11, <2>1, <2>2, BodyGrows
  <2> HIDE DEF q2
  <2>5. UbxHeld(s2, p, UbxBody(q2)) /\ Len(s2) = p + 1 + Len(UbxBody(q2))
    <3> DEFINE body == UbxBody(q)
    <3>1. body \in Seq(UbxBytes) /\ UbxHeld(s, p, body) /\ Len(s) = p + 1 + Len(body) BY <2>1, <2>3 DEF l
    <3> HIDE DEF body
    <3>2. UbxHeld(Append(s, b), p, Append(body, b)) /\ Len(Append(s, b)) = p + 1 + Len(Append(body, b))
      BY <1>1, <3>1, HeldGrows
    <3> QED BY <2>4, <3>2 DEF s2, body
  <2>6. p \in 1..(Len(s2) + 1) BY <1>1
  <2>7. UbxIsAt(s2, out, p, q2) BY <1>3, <2>4, <2>5, <2>6 DEF UbxIsAt
  <2> QED BY <1>3, <2>4, <2>7 DEF q2, s2
<1>12. CASE q.state = "LEN2" /\ q.len + 256 * b > MAX_LEN
  <2>1. UbxSound(q) /\ UbxHeld(s, p, UbxBody(q)) /\ l = p + 1 + Len(UbxBody(q)) BY <1>12 DEF UbxIsAt, l, InHeader
  <2>2. UbxBody(q) = <<q.cls, q.id, q.len>> /\ Len(UbxBody(q)) = 3 BY <1>12 DEF UbxBody
  <2>3. s[p] = SYNC_1 /\ s[p + 1] = SYNC_2 /\ s[p + 4] = q.len /\ l = p + 4
    <3>1. 3 \in 1..3 /\ p + 1 + 3 = p + 4 BY <1>1
    <3>2. s[p + 4] = q.len BY <2>1, <2>2, <3>1 DEF UbxHeld
    <3> QED BY <1>1, <2>1, <2>2, <3>2 DEF UbxHeld
  <2>4. Completed(q, b) = <<>> BY <1>12 DEF Completed
  <2>5. q2 = Reset BY <1>12 DEF Fed, AfterLength
  <2> HIDE DEF q2
  <2>6. ASSUME NEW t, UbxBegins(t, s2) PROVE MessagesFrom(t)[p] = MessagesFrom(t)[p + 6]
    <3>1. /\ t \in Seq(UbxBytes) /\ Len(t) \in Nat /\ l + 1 <= Len(t) /\ t[l + 1] = b /\ \A i \in 1..l : t[i] = s[i]
      BY <1>3, <2>6
    <3>2. /\ p \in 1..l /\ p + 1 \in 1..l /\ p + 4 \in 1..l /\ p + 5 = l + 1 /\ p \in 1..Len(t) /\ p + 5 <= Len(t)
          /\ p \in 1..(Len(t) + 1) /\ p + 6 \in 1..(Len(t) + 1)
      BY <1>1, <2>3, <3>1, SMTT(30)
    <3>3. t[p] = SYNC_1 /\ t[p + 1] = SYNC_2 /\ Announced(t, p) = q.len + 256 * b
      BY <2>3, <3>1, <3>2 DEF Announced
    <3>4. UbxWidth(t, p) = 6 BY <1>12, <3>3 DEF UbxWidth
    <3>5. p \in DOMAIN UbxWidths(t) /\ UbxWidths(t)[p] = 6
      <4>1. p + UbxWidth(t, p) - 1 <= Len(t) BY <1>1, <3>1, <3>2, <3>4
      <4> QED BY <3>2, <3>4, <4>1 DEF UbxWidths
    <3>6. UbxAt(t)[p] = <<>>
      <4>1. Announced(t, p) \in Nat BY <3>1, <3>2, HeaderIsThere
      <4>2. UbxWidth(t, p) # 8 + Announced(t, p) BY <3>4, <4>1
      <4>3. MessageAt(t, p) = <<>> BY <4>2 DEF MessageAt
      <4> QED BY <3>5, <4>3 DEF UbxAt
    <3>7. MessagesFrom(t)[p] = ReadAt(MessagesFrom(t), UbxWidths(t), UbxAt(t), p) BY <3>1, <3>2, MessagesAreRead
    <3>8. MessagesFrom(t)[p] = <<>> \o MessagesFrom(t)[p + 6] BY <3>5, <3>6, <3>7 DEF ReadAt
    <3>9. MessagesFrom(t)[p + 6] \in Seq(UbxMessages) BY <3>1, <3>2, MessagesAreMessages
    <3> QED BY <3>8, <3>9, ConcatEmptySeq
  <2>7. p + 6 <= l + 2 /\ 6 \in Nat BY <1>1, <2>3
  <2>8. UbxReached(s2, out, p + 6) BY <1>5, <2>6, <2>7
  <2>9. UbxIsAt(s2, out, p + 6, q2) BY <1>1, <1>8, <2>3, <2>5, <2>8 DEF UbxIsAt
  <2> QED BY <1>3, <1>8, <2>4, <2>5, <2>9 DEF q2, s2
<1>13. CASE q.state = "CK_A"
  <2>1. UbxSound(q) /\ UbxHeld(s, p, UbxBody(q)) /\ l = p + 1 + Len(UbxBody(q)) BY <1>13 DEF UbxIsAt, l, InHeader
  <2>2. Completed(q, b) = <<>> BY <1>13 DEF Completed
  <2>3. q2 = [q EXCEPT !.recvA = b, !.state = "CK_B"] BY <1>13 DEF Fed
  <2>4. q2 = [state |-> "CK_B", cls |-> q.cls, id |-> q.id, len |-> q.len, payload |-> q.payload,
              ckA |-> q.ckA, ckB |-> q.ckB, recvA |-> b]
    BY <1>2, <2>3
  <2> HIDE DEF q2
  <2>5. q2 \in UbxParsers
    <3>1. "CK_B" \in UbxStates BY DEF UbxStates
    <3> QED BY <1>2, <2>4, <3>1, UbxParserIsParser
  <2>6. /\ q2.state = "CK_B" /\ q2.cls = q.cls /\ q2.id = q.id /\ q2.len = q.len /\ q2.payload = q.payload
        /\ q2.ckA = q.ckA /\ q2.ckB = q.ckB /\ q2.recvA = b
    BY <2>4
  <2>7. UbxBody(q2) = UbxBody(q) BY <1>13, <2>6 DEF UbxBody, UbxHeader
  <2>8. UbxSound(q2) BY <1>13, <2>1, <2>6, <2>7 DEF UbxSound, LengthFits, InFrame
  <2>9. UbxBody(q) \in Seq(UbxBytes) BY <1>13, <2>1, BodyIsBytes DEF InFrame
  <2>10. UbxHeld(s2, p, UbxBody(q2)) /\ Len(s2) = p + 2 + Len(UbxBody(q2)) /\ s2[Len(s2)] = q2.recvA
    <3> DEFINE body == UbxBody(q)
    <3>1. body \in Seq(UbxBytes) /\ UbxHeld(s, p, body) /\ l = p + 1 + Len(body) /\ UbxBody(q2) = body BY <2>1, <2>7, <2>9
    <3> HIDE DEF body
    <3>2. Len(body) \in Nat BY <3>1
    <3>3. p + 1 + Len(body) <= Len(s) BY <1>1, <3>1, <3>2 DEF l
    <3>4. UbxHeld(s2, p, body) BY <1>1, <1>3, <3>1, <3>3, HeldStays
    <3> QED BY <1>1, <2>6, <3>1, <3>2, <3>4
  <2>11. p \in 1..(Len(s2) + 1) BY <1>1
  <2>12. UbxIsAt(s2, out, p, q2) BY <1>3, <2>6, <2>8, <2>10, <2>11 DEF UbxIsAt
  <2> QED BY <1>3, <2>2, <2>5, <2>12 DEF q2, s2
<1>14. CASE q.state = "CK_B"
  <2> DEFINE msgs == Completed(q, b)
             n == q.len
             body == UbxBody(q)
  <2>1. UbxSound(q) /\ UbxHeld(s, p, body) /\ l = p + 2 + Len(body) /\ s[l] = q.recvA
    BY <1>14 DEF UbxIsAt, l, InHeader
  <2>2. body \in Seq(UbxBytes) BY <1>14, <2>1, BodyIsBytes DEF InFrame
  <2>3. Len(body) = 4 + n /\ n \in Nat
    <3>1. Len(body) = 4 + Len(q.payload) BY <1>1, <1>14, <2>1, HeaderIsKnown DEF InFrame
    <3>2. Len(q.payload) = n BY <1>14, <2>1 DEF UbxSound, LengthFits
    <3> QED BY <1>2, <3>1, <3>2
  <2>4. q2 = Reset BY <1>14 DEF Fed
  <2>5. msgs \in Seq(UbxMessages)
    <3>1. [cls |-> q.cls, id |-> q.id, payload |-> q.payload] \in UbxMessages BY <1>2 DEF UbxMessages
    <3>2. \A m \in UbxMessages : <<m>> \in Seq(UbxMessages) OBVIOUS
    <3> QED BY <1>3, <3>1, <3>2 DEF Completed
  <2> HIDE DEF q2, msgs, n, body
  <2>6. l = p + 6 + n BY <1>1, <2>1, <2>3
  <2>7. ASSUME NEW t, UbxBegins(t, s2) PROVE MessagesFrom(t)[p] = msgs \o MessagesFrom(t)[p + (8 + n)]
    <3>1. /\ t \in Seq(UbxBytes) /\ Len(t) \in Nat /\ l + 1 <= Len(t) /\ t[l + 1] = b /\ \A i \in 1..l : t[i] = s[i]
          /\ UbxBegins(t, s)
      BY <1>3, <2>7
    <3>2. p + 1 + Len(body) <= Len(s) BY <1>1, <2>1, <2>3 DEF l
    <3>3. UbxHeld(t, p, body) BY <1>1, <2>1, <2>2, <3>1, <3>2, HeldStays
    <3>4. p + 7 + n = l + 1 /\ p + 7 + n <= Len(t) /\ l \in 1..l
      BY <1>1, <2>3, <2>6, <3>1, SMTT(30)
    <3>5. t[p + 6 + n] = q.recvA /\ t[p + 7 + n] = b BY <2>1, <2>6, <3>1, <3>4
    <3>6. UbxWidth(t, p) = 8 + n /\ MessageAt(t, p) = msgs
      BY <1>1, <1>14, <2>1, <3>1, <3>3, <3>4, <3>5, MessageIsKnown DEF n, msgs, body
    <3>7. p \in 1..Len(t) /\ p + 5 <= Len(t) /\ p + (8 + n) - 1 <= Len(t) /\ p \in 1..(Len(t) + 1)
      BY <1>1, <2>3, <3>1, <3>4
    <3>8. p \in DOMAIN UbxWidths(t) /\ UbxWidths(t)[p] = 8 + n BY <3>6, <3>7 DEF UbxWidths
    <3>9. UbxAt(t)[p] = msgs BY <3>6, <3>8 DEF UbxAt
    <3>10. MessagesFrom(t)[p] = ReadAt(MessagesFrom(t), UbxWidths(t), UbxAt(t), p) BY <3>1, <3>7, MessagesAreRead
    <3>11. MessagesFrom(t)[p] = UbxAt(t)[p] \o MessagesFrom(t)[p + UbxWidths(t)[p]] BY <3>8, <3>10 DEF ReadAt
    <3> QED BY <3>8, <3>9, <3>11
  <2>8. p + (8 + n) <= l + 2 /\ 8 + n \in Nat BY <1>1, <2>3, <2>6
  <2>9. UbxReached(s2, out \o msgs, p + (8 + n)) BY <1>4, <2>5, <2>7, <2>8
  <2>10. p + (8 + n) = Len(s2) + 1 /\ Len(s2) + 1 \in 1..(Len(s2) + 1) BY <1>1, <2>3, <2>6
  <2>11. UbxIsAt(s2, out \o msgs, p + (8 + n), q2) BY <1>8, <2>4, <2>9, <2>10 DEF UbxIsAt
  <2> QED BY <1>8, <2>4, <2>5, <2>11 DEF q2, s2, msgs
<1>15. q.state \in UbxStates BY DEF UbxParsers
<1> QED BY <1>9, <1>10, <1>11, <1>12, <1>13, <1>14, <1>15 DEF UbxStates, InHeader

\* Of a frame that is not complete nothing is read yet.
LEMMA NoMessageFromHere ==
    ASSUME NEW s \in Seq(UbxBytes), NEW out \in Seq(UbxMessages), NEW q \in UbxParsers, NEW p, UbxIsAt(s, out, p, q)
    PROVE  out = MessagesIn(s)
<1> DEFINE l == Len(s)
<1>1. l \in Nat /\ p \in 1..(l + 1) /\ UbxReached(s, out, p) /\ p \in Nat \ {0}
  <2>1. p \in 1..(l + 1) /\ UbxReached(s, out, p) /\ l \in Nat BY DEF UbxIsAt
  <2> HIDE DEF l
  <2> QED BY <2>1
<1>2. p \notin DOMAIN UbxWidths(s)
  <2>1. CASE q.state \in {"SYNC1", "SYNC2"} \union InHeader
    <3>1. p + 5 > l
      <4>1. \/ p = l + 1 \/ p = l
            \/ /\ l = p + 1 + Len(UbxBody(q)) /\ q.state \in InHeader
        BY <2>1 DEF UbxIsAt, InHeader
      <4>2. q.state \in InHeader => Len(UbxBody(q)) \in 0..3 BY DEF UbxBody, InHeader
      <4> DEFINE n == Len(UbxBody(q))
      <4> HIDE DEF l, n
      <4>3. p = l + 1 \/ p = l \/ (l = p + 1 + n /\ n \in 0..3) BY <4>1, <4>2 DEF n
      <4>4. \A m, i \in Nat, j \in 0..3 : (i = m + 1 \/ i = m \/ m = i + 1 + j) => i + 5 > m BY SMT
      <4>5. 0 \in 0..3 OBVIOUS
      <4> QED BY <1>1, <4>3, <4>4, <4>5
    <3>2. p \in DOMAIN UbxWidths(s) => p + 5 <= l BY DEF UbxWidths
    <3> HIDE DEF l
    <3> QED BY <1>1, <3>1, <3>2
  <2>2. CASE q.state \in InFrame
    <3> DEFINE n == q.len
               m == Len(q.payload)
    <3>1. UbxSound(q) /\ UbxHeld(s, p, UbxBody(q)) /\ l <= p + 2 + Len(UbxBody(q))
      <4>1. /\ UbxSound(q) /\ UbxHeld(s, p, UbxBody(q))
            /\ l = p + 1 + Len(UbxBody(q)) \/ l = p + 2 + Len(UbxBody(q))
        BY <2>2 DEF UbxIsAt, InHeader, InFrame
      <4>2. Len(UbxBody(q)) \in Nat
        <5>1. UbxBody(q) \in Seq(UbxBytes) BY <2>2, <4>1, BodyIsBytes
        <5> QED BY <5>1
      <4> HIDE DEF l
      <4> QED BY <1>1, <4>1, <4>2
    <3>2. Len(UbxBody(q)) = 4 + m /\ m \in Nat /\ UbxWidth(s, p) = 8 + n BY <1>1, <2>2, <3>1, HeaderIsKnown
    <3>3. m <= n /\ n \in Nat
      <4>1. n \in Nat BY DEF UbxParsers
      <4>2. m < n \/ m = n BY <2>2, <3>1 DEF UbxSound, LengthFits, InFrame
      <4> HIDE DEF n, m
      <4> QED BY <3>2, <4>1, <4>2
    <3>4. p \in DOMAIN UbxWidths(s) => p + UbxWidth(s, p) - 1 <= l BY DEF UbxWidths
    <3> HIDE DEF l, n, m
    <3> QED BY <1>1, <3>1, <3>2, <3>3, <3>4
  <2>3. q.state \in UbxStates BY DEF UbxParsers
  <2> QED BY <2>1, <2>2, <2>3 DEF UbxStates, InHeader, InFrame
<1>3. MessagesFrom(s)[p] = <<>>
  <2>1. MessagesFrom(s)[p] = ReadAt(MessagesFrom(s), UbxWidths(s), UbxAt(s), p) BY <1>1, MessagesAreRead
  <2> QED BY <1>2, <2>1 DEF ReadAt
<1>4. UbxBegins(s, s) BY DEF UbxBegins
<1>5. MessagesFrom(s)[1] = out \o <<>> BY <1>1, <1>3, <1>4 DEF UbxReached
<1>6. out \o <<>> = out
  <2> HIDE DEF UbxMessages
  <2> QED BY ConcatEmptySeq
<1> QED BY <1>5, <1>6 DEF MessagesIn

UbxIInv ==
    /\ ubxWire \in Seq(UbxBytes) /\ ubxFed \in Seq(UbxBytes)
    /\ ubx \in UbxParsers /\ ubxOut \in Seq(UbxMessages)
    /\ \E p : UbxIsAt(ubxFed, ubxOut, p, ubx)

LEMMA UbxBeginsRight == ASSUME UbxInit PROVE UbxIInv
<1>1. ubx = Reset /\ ubxOut = <<>> /\ ubxWire = <<>> /\ ubxFed = <<>> BY DEF UbxInit
<1>2. <<>> \in Seq(UbxBytes) /\ <<>> \in Seq(UbxMessages) /\ Len(<<>>) = 0 /\ 1 \in 1..(0 + 1)
  <2> HIDE DEF UbxMessages
  <2> QED OBVIOUS
<1>3. Reset \in UbxParsers /\ Reset.state = "SYNC1"
  <2>1. <<>> \in Seq(UbxBytes) /\ 0 \in Nat /\ "SYNC1" \in UbxStates BY DEF UbxStates
  <2>2. Reset \in UbxParsers BY <2>1, UbxWrapsToByte, UbxParserIsParser DEF Reset
  <2> QED BY <2>2 DEF Reset
<1>4. UbxReached(<<>>, <<>>, 1)
  <2> SUFFICES ASSUME NEW t, UbxBegins(t, <<>>) PROVE MessagesFrom(t)[1] = <<>> \o MessagesFrom(t)[1]
    BY DEF UbxReached
  <2>1. t \in Seq(UbxBytes) /\ 1 \in 1..(Len(t) + 1)
    <3>1. t \in Seq(UbxBytes) BY DEF UbxBegins
    <3>2. Len(t) \in Nat BY <3>1
    <3> QED BY <3>1, <3>2
  <2>2. MessagesFrom(t)[1] \in Seq(UbxMessages) BY <2>1, MessagesAreMessages
  <2> QED BY <2>2, ConcatEmptySeq
<1>5. UbxIsAt(ubxFed, ubxOut, 1, ubx) BY <1>1, <1>2, <1>3, <1>4 DEF UbxIsAt
<1> QED BY <1>1, <1>2, <1>3, <1>5 DEF UbxIInv

LEMMA UbxKeeps == ASSUME UbxIInv, [UbxNext]_ubxVars PROVE UbxIInv'
<1>1. CASE UbxFeed
  <2> DEFINE b == Head(ubxWire)
             q == ubx
  <2>1. ubxWire # <<>> /\ ubxWire \in Seq(UbxBytes) /\ ubxFed \in Seq(UbxBytes) /\ q \in UbxParsers /\ ubxOut \in Seq(UbxMessages)
    BY <1>1 DEF UbxFeed, UbxIInv
  <2>2. /\ ubx' = Fed(q, b) /\ ubxOut' = ubxOut \o Completed(q, b)
        /\ ubxFed' = Append(ubxFed, b) /\ ubxWire' = Tail(ubxWire)
    BY <1>1 DEF UbxFeed
  <2>3. b \in UbxBytes /\ Tail(ubxWire) \in Seq(UbxBytes) /\ Append(ubxFed, b) \in Seq(UbxBytes)
    BY <2>1, HeadTailProperties
  <2>4. PICK p : UbxIsAt(ubxFed, ubxOut, p, q) BY DEF UbxIInv
  <2> HIDE DEF b, q
  <2>5. /\ Fed(q, b) \in UbxParsers /\ Completed(q, b) \in Seq(UbxMessages)
        /\ \E p2 : UbxIsAt(Append(ubxFed, b), ubxOut \o Completed(q, b), p2, Fed(q, b))
    BY <2>1, <2>3, <2>4, UbxFeedKeeps
  <2>6. ubxOut \o Completed(q, b) \in Seq(UbxMessages)
    <3> HIDE DEF UbxMessages
    <3> QED BY <2>1, <2>5, ConcatProperties
  <2> QED BY <2>2, <2>3, <2>5, <2>6 DEF UbxIInv
<1>2. ASSUME NEW c \in Chunks, UbxArrive(c) PROVE UbxIInv'
  <2>1. ubxWire' = c /\ ubx' = ubx /\ ubxOut' = ubxOut /\ ubxFed' = ubxFed BY <1>2 DEF UbxArrive
  <2>2. c \in Seq(UbxBytes) BY UbxParserAssumption
  <2> QED BY <2>1, <2>2 DEF UbxIInv
<1>3. CASE UNCHANGED ubxVars BY <1>3 DEF UbxIInv, ubxVars
<1> QED BY <1>1, <1>2, <1>3 DEF UbxNext

\* Whatever the line carries (noise, stray start bytes, cut, damaged and oversized frames), the
\* parser has delivered exactly the messages of the bytes it was fed (UbxParser::feed).
THEOREM UbxFramesAreParsed == UbxSpec => []ParsesFrames
<1>1. UbxInit => UbxIInv BY UbxBeginsRight
<1>2. UbxIInv /\ [UbxNext]_ubxVars => UbxIInv' BY UbxKeeps
<1>3. UbxIInv => ParsesFrames BY NoMessageFromHere DEF UbxIInv, ParsesFrames
<1> QED BY <1>1, <1>2, <1>3, PTL DEF UbxSpec

-----------------------------------------------------------------------------
(* The parser of the dust sensor.                                           *)

SdsMessages == {Message(type, d) : type \in {DATA, ACK}, d \in Seq(SdsBytes)}

\* The places of a run of bytes at which something is read, and the message there.
FrameWidths(s) ==
    [i \in {j \in 1..Len(s) : j + 8 <= Len(s) /\ j + FrameWidth(s, j) - 1 <= Len(s)} |-> FrameWidth(s, i)]
FrameMessages(s) ==
    [i \in DOMAIN FrameWidths(s) |->
        IF FrameWidth(s, i) = 10 /\ s[i + 9] = TAIL
        THEN <<Message(s[i + 1], SubSeq(s, i + 2, i + 7))>> ELSE <<>>]

LEMMA WidthIsOneOf == ASSUME NEW s, NEW i PROVE FrameWidth(s, i) \in {1, 9, 10}
BY DEF FrameWidth

LEMMA FrameWidthsFit == ASSUME NEW s \in Seq(SdsBytes) PROVE Widths(FrameWidths(s), Len(s))
<1>1. Len(s) \in Nat OBVIOUS
<1>2. ASSUME NEW i \in DOMAIN FrameWidths(s)
      PROVE  i \in 1..Len(s) /\ FrameWidths(s)[i] \in Nat \ {0} /\ i + FrameWidths(s)[i] <= Len(s) + 1
  <2>1. i \in 1..Len(s) /\ i + FrameWidth(s, i) - 1 <= Len(s) /\ FrameWidths(s)[i] = FrameWidth(s, i)
    BY DEF FrameWidths
  <2>2. FrameWidth(s, i) \in {1, 9, 10} BY WidthIsOneOf
  <2> QED BY <1>1, <2>1, <2>2
<1> QED BY <1>1, <1>2 DEF Widths

\* What is read from a place on.
LEMMA FramesAreRead ==
    ASSUME NEW s \in Seq(SdsBytes)
    PROVE  \A i \in 1..(Len(s) + 1) : FramesFrom(s)[i] = ReadAt(FramesFrom(s), FrameWidths(s), FrameMessages(s), i)
<1> DEFINE Entry(f, i) == IF i + 8 > Len(s) \/ i + FrameWidth(s, i) - 1 > Len(s) THEN <<>>
                          ELSE (IF FrameWidth(s, i) = 10 /\ s[i + 9] = TAIL
                                THEN <<Message(s[i + 1], SubSeq(s, i + 2, i + 7))>> ELSE <<>>)
                               \o f[i + FrameWidth(s, i)]
           Read(f, i) == ReadAt(f, FrameWidths(s), FrameMessages(s), i)
<1>1. ASSUME NEW f, NEW i \in 1..(Len(s) + 1) PROVE Read(f, i) = Entry(f, i)
  <2>1. Len(s) \in Nat /\ FrameWidth(s, i) \in {1, 9, 10} BY WidthIsOneOf
  <2>2. i \in DOMAIN FrameWidths(s) <=> ~(i + 8 > Len(s) \/ i + FrameWidth(s, i) - 1 > Len(s))
    BY <2>1 DEF FrameWidths
  <2>3. ASSUME i \in DOMAIN FrameWidths(s)
        PROVE  /\ FrameWidths(s)[i] = FrameWidth(s, i)
               /\ FrameMessages(s)[i] = IF FrameWidth(s, i) = 10 /\ s[i + 9] = TAIL
                                        THEN <<Message(s[i + 1], SubSeq(s, i + 2, i + 7))>> ELSE <<>>
    BY <2>3 DEF FrameWidths, FrameMessages
  <2> QED BY <2>2, <2>3 DEF ReadAt
<1>2. PICK f : IsReading(f, FrameWidths(s), FrameMessages(s), Len(s)) BY FrameWidthsFit, ReadingExists
<1>3. f = [i \in 1..(Len(s) + 1) |-> Entry(f, i)]
  <2> DEFINE h == [i \in 1..(Len(s) + 1) |-> Entry(f, i)]
  <2> HIDE DEF Read, Entry
  <2>1. h = [i \in 1..(Len(s) + 1) |-> Read(f, i)] BY <1>1
  <2>2. f = [i \in 1..(Len(s) + 1) |-> Read(f, i)] BY <1>2 DEF IsReading, Read
  <2> QED BY <2>1, <2>2
<1>4. FramesFrom(s) = [i \in 1..(Len(s) + 1) |-> Entry(FramesFrom(s), i)] BY <1>3 DEF FramesFrom
<1> HIDE DEF Read, Entry
<1>5. \A i \in 1..(Len(s) + 1) : FramesFrom(s)[i] = Read(FramesFrom(s), i) BY <1>1, <1>4
<1> QED BY <1>5 DEF Read

LEMMA FramesAreMessages ==
    ASSUME NEW s \in Seq(SdsBytes)
    PROVE  \A i \in 1..(Len(s) + 1) : FramesFrom(s)[i] \in Seq(SdsMessages)
<1>1. ASSUME NEW i \in DOMAIN FrameWidths(s) PROVE FrameMessages(s)[i] \in Seq(SdsMessages)
  <2>1. /\ FrameMessages(s)[i] = IF FrameWidth(s, i) = 10 /\ s[i + 9] = TAIL
                                 THEN <<Message(s[i + 1], SubSeq(s, i + 2, i + 7))>> ELSE <<>>
        /\ i \in 1..Len(s) /\ i + FrameWidth(s, i) - 1 <= Len(s)
    BY DEF FrameMessages, FrameWidths
  <2>2. CASE FrameWidth(s, i) = 10 /\ s[i + 9] = TAIL
    <3>1. s[i + 1] \in {DATA, ACK} BY <2>2 DEF FrameWidth
    <3>2. i + 2 \in Int /\ i + 7 \in Int /\ \A k \in (i + 2)..(i + 7) : s[k] \in SdsBytes BY <2>1, <2>2, ElementOfSeq
    <3>3. SubSeq(s, i + 2, i + 7) \in Seq(SdsBytes) BY <3>2, SubSeqProperties
    <3>4. \A type \in {DATA, ACK}, d \in Seq(SdsBytes) : Message(type, d) \in SdsMessages BY DEF SdsMessages
    <3>5. Message(s[i + 1], SubSeq(s, i + 2, i + 7)) \in SdsMessages BY <3>1, <3>3, <3>4
    <3> HIDE DEF SdsMessages
    <3> QED BY <2>1, <2>2, <3>5
  <2>3. CASE ~(FrameWidth(s, i) = 10 /\ s[i + 9] = TAIL) BY <2>1, <2>3
  <2> QED BY <2>2, <2>3
<1> HIDE DEF SdsMessages
<1> QED BY <1>1, FrameWidthsFit, FramesAreRead, ReadingIsTyped

\* The run of bytes t begins with s.
SdsBegins(t, s) == t \in Seq(SdsBytes) /\ Len(s) <= Len(t) /\ \A i \in 1..Len(s) : t[i] = s[i]

\* Of the bytes s and whatever follows, the messages out are read, and then those from place p on.
Reached(s, out, p) == \A t : SdsBegins(t, s) => FramesFrom(t)[1] = out \o FramesFrom(t)[p]

LEMMA BeginsLess ==
    ASSUME NEW s \in Seq(SdsBytes), NEW b \in SdsBytes, NEW t, SdsBegins(t, Append(s, b))
    PROVE  SdsBegins(t, s) /\ Len(s) + 1 <= Len(t) /\ t[Len(s) + 1] = b
<1>1. Len(s) \in Nat /\ Len(Append(s, b)) = Len(s) + 1 /\ Append(s, b)[Len(s) + 1] = b OBVIOUS
<1>2. \A i \in 1..Len(s) : i \in 1..(Len(s) + 1) /\ Append(s, b)[i] = s[i] BY <1>1
<1>3. \A i \in 1..Len(s) : t[i] = s[i] BY <1>1, <1>2 DEF SdsBegins
<1>4. Len(s) + 1 \in 1..(Len(s) + 1) BY <1>1
<1> QED BY <1>1, <1>3, <1>4 DEF SdsBegins

LEMMA ReachedStays ==
    ASSUME NEW s \in Seq(SdsBytes), NEW b \in SdsBytes, NEW out, NEW p, Reached(s, out, p)
    PROVE  Reached(Append(s, b), out, p)
BY BeginsLess DEF Reached

\* What is read at a place if it is read in every case.
LEMMA ReachedStep ==
    ASSUME NEW s \in Seq(SdsBytes), NEW b \in SdsBytes, NEW out \in Seq(SdsMessages), NEW msgs \in Seq(SdsMessages),
           NEW p \in 1..(Len(s) + 1), Reached(s, out, p), NEW n \in Nat, p + n <= Len(s) + 2,
           \A t : SdsBegins(t, Append(s, b)) => FramesFrom(t)[p] = msgs \o FramesFrom(t)[p + n]
    PROVE  Reached(Append(s, b), out \o msgs, p + n)
<1> SUFFICES ASSUME NEW t, SdsBegins(t, Append(s, b))
             PROVE  FramesFrom(t)[1] = (out \o msgs) \o FramesFrom(t)[p + n]
  BY DEF Reached
<1>1. /\ Len(s) \in Nat /\ Len(Append(s, b)) = Len(s) + 1 /\ t \in Seq(SdsBytes) /\ Len(t) \in Nat
      /\ Len(s) + 1 <= Len(t)
  BY DEF SdsBegins
<1>2. SdsBegins(t, s) BY BeginsLess
<1>3. FramesFrom(t)[1] = out \o FramesFrom(t)[p] BY <1>2 DEF Reached
<1>4. FramesFrom(t)[p] = msgs \o FramesFrom(t)[p + n] OBVIOUS
<1>5. p + n \in 1..(Len(t) + 1) BY <1>1
<1>6. FramesFrom(t)[p + n] \in Seq(SdsMessages) BY <1>1, <1>5, FramesAreMessages
<1>7. out \o (msgs \o FramesFrom(t)[p + n]) = (out \o msgs) \o FramesFrom(t)[p + n]
  <2> DEFINE rest == FramesFrom(t)[p + n]
  <2>1. rest \in Seq(SdsMessages) BY <1>6
  <2> HIDE DEF rest, SdsMessages
  <2>2. (out \o msgs) \o rest = out \o (msgs \o rest) BY <2>1, ConcatAssociative, SMTT(60)
  <2> QED BY <2>2 DEF rest
<1> QED BY <1>3, <1>4, <1>7

\* A byte that begins no frame is passed over, also when too few are there to tell.
LEMMA NoiseIsSkipped ==
    ASSUME NEW t \in Seq(SdsBytes), NEW p \in 1..Len(t), FrameWidth(t, p) = 1
    PROVE  FramesFrom(t)[p] = FramesFrom(t)[p + 1]
<1>1. Len(t) \in Nat /\ p \in 1..(Len(t) + 1) /\ p + 1 \in 1..(Len(t) + 1) OBVIOUS
<1>2. /\ FramesFrom(t)[p] = ReadAt(FramesFrom(t), FrameWidths(t), FrameMessages(t), p)
      /\ FramesFrom(t)[p + 1] = ReadAt(FramesFrom(t), FrameWidths(t), FrameMessages(t), p + 1)
  BY <1>1, FramesAreRead
<1>3. CASE p + 8 <= Len(t)
  <2>1. p \in DOMAIN FrameWidths(t) /\ FrameWidths(t)[p] = 1 BY <1>1, <1>3 DEF FrameWidths
  <2>2. FrameMessages(t)[p] = <<>> BY <2>1 DEF FrameMessages
  <2>3. FramesFrom(t)[p] = <<>> \o FramesFrom(t)[p + 1] BY <1>2, <2>1, <2>2 DEF ReadAt
  <2>4. FramesFrom(t)[p + 1] \in Seq(SdsMessages) BY <1>1, FramesAreMessages
  <2> HIDE DEF SdsMessages
  <2> QED BY <2>3, <2>4, ConcatEmptySeq
<1>4. CASE p + 8 > Len(t)
  <2>1. p \notin DOMAIN FrameWidths(t) /\ p + 1 \notin DOMAIN FrameWidths(t) BY <1>1, <1>4 DEF FrameWidths
  <2> QED BY <1>2, <2>1 DEF ReadAt
<1> QED BY <1>1, <1>3, <1>4

\* The sum of up to six bytes.
DataByte(d, k) == IF k <= Len(d) THEN d[k] ELSE 0
DataSum(d) == DataByte(d, 1) + DataByte(d, 2) + DataByte(d, 3) + DataByte(d, 4) + DataByte(d, 5) + DataByte(d, 6)

LEMMA BytesAreNumbers == SdsBytes \subseteq Nat
BY DEF SdsBytes

LEMMA DataSumGrows ==
    ASSUME NEW d \in Seq(SdsBytes), NEW b \in SdsBytes, Len(d) <= 5
    PROVE  DataSum(d) \in Nat /\ DataSum(Append(d, b)) = DataSum(d) + b
<1> DEFINE e == Append(d, b)
           n == Len(d)
<1>1. n \in 0..5 /\ Len(e) = n + 1 /\ e[n + 1] = b /\ b \in Nat /\ \A i \in 1..n : e[i] = d[i]
  <2>1. b \in Nat BY BytesAreNumbers
  <2>2. n \in 0..5
    <3>1. n \in Nat /\ n <= 5 OBVIOUS
    <3> HIDE DEF n
    <3> QED BY <3>1
  <2>3. Len(e) = n + 1 /\ e[n + 1] = b /\ \A i \in 1..n : e[i] = d[i] OBVIOUS
  <2> QED BY <2>1, <2>2, <2>3
<1>2. \A i \in 1..n : d[i] \in Nat BY BytesAreNumbers, ElementOfSeq
<1> HIDE DEF e, n
<1>3. ASSUME NEW k \in 1..6
      PROVE  /\ DataByte(d, k) \in Nat
             /\ k # n + 1 => DataByte(e, k) = DataByte(d, k)
             /\ k = n + 1 => DataByte(e, k) = b /\ DataByte(d, k) = 0
  <2>1. DataByte(d, k) = IF k <= n THEN d[k] ELSE 0 BY DEF DataByte, n
  <2>2. DataByte(e, k) = IF k <= n + 1 THEN e[k] ELSE 0 BY <1>1 DEF DataByte
  <2>3. k <= n => k \in 1..n BY <1>1
  <2>4. CASE k <= n BY <1>1, <1>2, <2>1, <2>2, <2>3, <2>4
  <2>5. CASE k = n + 1 BY <1>1, <2>1, <2>2, <2>5
  <2>6. CASE ~(k <= n) /\ k # n + 1 BY <1>1, <2>1, <2>2, <2>6
  <2> QED BY <2>4, <2>5, <2>6
<1> DEFINE d1 == DataByte(d, 1)
           d2 == DataByte(d, 2)
           d3 == DataByte(d, 3)
           d4 == DataByte(d, 4)
           d5 == DataByte(d, 5)
           d6 == DataByte(d, 6)
<1>4. /\ DataSum(d) = d1 + d2 + d3 + d4 + d5 + d6
      /\ d1 \in Nat /\ d2 \in Nat /\ d3 \in Nat /\ d4 \in Nat /\ d5 \in Nat /\ d6 \in Nat
  BY <1>3 DEF DataSum
<1>5. DataSum(e) = (IF n = 0 THEN b ELSE d1) + (IF n = 1 THEN b ELSE d2) + (IF n = 2 THEN b ELSE d3)
                   + (IF n = 3 THEN b ELSE d4) + (IF n = 4 THEN b ELSE d5) + (IF n = 5 THEN b ELSE d6)
  <2>1. DataByte(e, 1) = IF n = 0 THEN b ELSE d1 BY <1>1, <1>3, SMTT(30)
  <2>2. DataByte(e, 2) = IF n = 1 THEN b ELSE d2 BY <1>1, <1>3, SMTT(30)
  <2>3. DataByte(e, 3) = IF n = 2 THEN b ELSE d3 BY <1>1, <1>3, SMTT(30)
  <2>4. DataByte(e, 4) = IF n = 3 THEN b ELSE d4 BY <1>1, <1>3, SMTT(30)
  <2>5. DataByte(e, 5) = IF n = 4 THEN b ELSE d5 BY <1>1, <1>3, SMTT(30)
  <2>6. DataByte(e, 6) = IF n = 5 THEN b ELSE d6 BY <1>1, <1>3, SMTT(30)
  <2> QED BY <2>1, <2>2, <2>3, <2>4, <2>5, <2>6 DEF DataSum
<1>6. /\ n = 0 => d1 = 0
      /\ n = 1 => d2 = 0
      /\ n = 2 => d3 = 0
      /\ n = 3 => d4 = 0
      /\ n = 4 => d5 = 0
      /\ n = 5 => d6 = 0
  BY <1>1, <1>3
<1> HIDE DEF d1, d2, d3, d4, d5, d6
<1>7. DataSum(d) \in Nat BY <1>4
<1>8. DataSum(e) = DataSum(d) + b
  <2>1. CASE n = 0 BY <1>1, <1>4, <1>5, <1>6, <2>1
  <2>2. CASE n = 1 BY <1>1, <1>4, <1>5, <1>6, <2>2
  <2>3. CASE n = 2 BY <1>1, <1>4, <1>5, <1>6, <2>3
  <2>4. CASE n = 3 BY <1>1, <1>4, <1>5, <1>6, <2>4
  <2>5. CASE n = 4 BY <1>1, <1>4, <1>5, <1>6, <2>5
  <2>6. CASE n = 5 BY <1>1, <1>4, <1>5, <1>6, <2>6
  <2> QED BY <1>1, <2>1, <2>2, <2>3, <2>4, <2>5, <2>6
<1> QED BY <1>7, <1>8 DEF e

LEMMA SumWraps == \A a, b \in Nat : ((a % 256) + b) % 256 = (a + b) % 256 /\ a % 256 \in 0..255
BY SMT

LEMMA WrapsToByte == 0 \in 0..255 /\ \A a \in Nat : a % 256 \in 0..255
BY SMT

SdsParsers ==
    [state : {"SYNC1", "SYNC2", "DAT", "CHKSM", "TAIL"}, type : SdsBytes, data : Seq(SdsBytes), ck : 0..255]

LEMMA ParserIsParser ==
    \A a \in {"SYNC1", "SYNC2", "DAT", "CHKSM", "TAIL"}, type \in SdsBytes, d \in Seq(SdsBytes), c \in 0..255 :
        [state |-> a, type |-> type, data |-> d, ck |-> c] \in SdsParsers
BY DEF SdsParsers

\* The bytes s from place p on are those the parser q holds of a frame.
FrameBegun(s, p, q) ==
    /\ s[p] = HEAD /\ s[p + 1] = q.type /\ q.type \in {DATA, ACK}
    /\ Len(q.data) <= 6 /\ \A k \in 1..Len(q.data) : s[p + 1 + k] = q.data[k]
    /\ q.ck = DataSum(q.data) % 256

\* The parser q has read the bytes s, has given the messages out, and is at a frame that begins at p.
ParserIsAt(s, out, p, q) ==
    /\ p \in 1..(Len(s) + 1) /\ Reached(s, out, p)
    /\ \/ q.state = "SYNC1" /\ p = Len(s) + 1
       \/ q.state = "SYNC2" /\ p = Len(s) /\ s[p] = HEAD
       \/ q.state = "DAT" /\ FrameBegun(s, p, q) /\ Len(q.data) <= 5 /\ Len(s) = p + 1 + Len(q.data)
       \/ q.state = "CHKSM" /\ FrameBegun(s, p, q) /\ Len(q.data) = 6 /\ Len(s) = p + 7
       \/ q.state = "TAIL" /\ FrameBegun(s, p, q) /\ Len(q.data) = 6 /\ Len(s) = p + 8 /\ s[p + 8] = q.ck

\* A frame of which all data were read, whatever follows.
LEMMA FrameIsKnown ==
    ASSUME NEW s \in Seq(SdsBytes), NEW p \in Nat \ {0}, NEW q \in SdsParsers, FrameBegun(s, p, q),
           Len(q.data) = 6, p + 7 <= Len(s), NEW t, SdsBegins(t, s)
    PROVE  /\ t[p] = HEAD /\ t[p + 1] = q.type /\ q.type \in {DATA, ACK}
           /\ FrameCheck(t, p) = q.ck /\ SubSeq(t, p + 2, p + 7) = q.data
<1>1. t \in Seq(SdsBytes) /\ Len(s) \in Nat /\ Len(t) \in Nat /\ Len(s) <= Len(t) /\ \A i \in 1..Len(s) : t[i] = s[i]
  BY DEF SdsBegins
<1>2. \A k \in 1..6 : t[p + 1 + k] = q.data[k]
  <2>1. \A k \in 1..6 : p + 1 + k \in 1..Len(s) BY <1>1
  <2> QED BY <1>1, <2>1 DEF FrameBegun
<1>3. p \in 1..Len(s) /\ p + 1 \in 1..Len(s) BY <1>1
<1>4. t[p] = HEAD /\ t[p + 1] = q.type /\ q.type \in {DATA, ACK} BY <1>1, <1>3 DEF FrameBegun
<1>5. /\ p + 1 + 1 = p + 2 /\ p + 1 + 2 = p + 3 /\ p + 1 + 3 = p + 4 /\ p + 1 + 4 = p + 5
      /\ p + 1 + 5 = p + 6 /\ p + 1 + 6 = p + 7
  OBVIOUS
<1>6. /\ t[p + 2] = q.data[1] /\ t[p + 3] = q.data[2] /\ t[p + 4] = q.data[3] /\ t[p + 5] = q.data[4]
      /\ t[p + 6] = q.data[5] /\ t[p + 7] = q.data[6]
  <2>1. 1 \in 1..6 /\ 2 \in 1..6 /\ 3 \in 1..6 /\ 4 \in 1..6 /\ 5 \in 1..6 /\ 6 \in 1..6 OBVIOUS
  <2> QED BY <1>2, <1>5, <2>1
<1>7. FrameCheck(t, p) = q.ck
  <2>1. /\ DataByte(q.data, 1) = q.data[1] /\ DataByte(q.data, 2) = q.data[2] /\ DataByte(q.data, 3) = q.data[3]
        /\ DataByte(q.data, 4) = q.data[4] /\ DataByte(q.data, 5) = q.data[5] /\ DataByte(q.data, 6) = q.data[6]
    BY DEF DataByte
  <2>2. q.ck = DataSum(q.data) % 256 BY DEF FrameBegun
  <2> QED BY <1>6, <2>1, <2>2 DEF FrameCheck, DataSum
<1>8. SubSeq(t, p + 2, p + 7) = q.data
  <2> DEFINE a == p + 2
             c == p + 7
  <2>1. q.data \in Seq(SdsBytes) BY DEF SdsParsers
  <2>2. a \in Int /\ c \in Int /\ a <= c /\ c - a + 1 = 6 /\ \A i \in 1..6 : a + i - 1 = p + 1 + i OBVIOUS
  <2>3. \A i \in a..c : t[i] \in SdsBytes BY <1>1, ElementOfSeq
  <2> HIDE DEF a, c
  <2>4. /\ SubSeq(t, a, c) \in Seq(SdsBytes) /\ Len(SubSeq(t, a, c)) = 6
        /\ \A i \in 1..6 : SubSeq(t, a, c)[i] = t[a + i - 1]
    BY <2>2, <2>3, SubSeqProperties
  <2>5. \A i \in 1..6 : SubSeq(t, a, c)[i] = q.data[i] BY <1>2, <2>2, <2>4
  <2>6. SubSeq(t, a, c) = q.data BY <2>1, <2>4, <2>5, SeqEqual, ZenonT(60)
  <2> QED BY <2>6 DEF a, c
<1> QED BY <1>4, <1>7, <1>8

\* One byte after the other: the place moves behind what has been read, or stays at the frame begun.
LEMMA FeedKeeps ==
    ASSUME NEW s \in Seq(SdsBytes), NEW out \in Seq(SdsMessages), NEW q \in SdsParsers, NEW b \in SdsBytes,
           NEW p, ParserIsAt(s, out, p, q)
    PROVE  /\ feed(q, b) \in SdsParsers /\ Published(q, b) \in Seq(SdsMessages)
           /\ \E p2 : ParserIsAt(Append(s, b), out \o Published(q, b), p2, feed(q, b))
<1> DEFINE s2 == Append(s, b)
           q2 == feed(q, b)
           l == Len(s)
<1>1. /\ l \in Nat /\ p \in 1..(l + 1) /\ Reached(s, out, p) /\ p \in Nat
      /\ s2 \in Seq(SdsBytes) /\ Len(s2) = l + 1 /\ s2[l + 1] = b /\ \A i \in 1..l : s2[i] = s[i]
  <2>1. p \in 1..(l + 1) /\ Reached(s, out, p) /\ l \in Nat BY DEF ParserIsAt
  <2>2. s2 \in Seq(SdsBytes) /\ Len(s2) = l + 1 /\ s2[l + 1] = b /\ \A i \in 1..l : s2[i] = s[i] OBVIOUS
  <2> HIDE DEF s2, l
  <2> QED BY <2>1, <2>2
<1>2. /\ q.type \in SdsBytes /\ q.data \in Seq(SdsBytes) /\ q.ck \in 0..255
      /\ q = [state |-> q.state, type |-> q.type, data |-> q.data, ck |-> q.ck]
  BY DEF SdsParsers
<1>3. /\ Reached(s2, out, p) /\ out \o <<>> = out /\ <<>> \in Seq(SdsMessages)
      /\ \A t : SdsBegins(t, s2) => /\ t \in Seq(SdsBytes) /\ Len(t) \in Nat /\ l + 1 <= Len(t) /\ t[l + 1] = b
                                    /\ SdsBegins(t, s) /\ \A i \in 1..l : t[i] = s[i]
  <2>1. Reached(s2, out, p) BY <1>1, ReachedStays
  <2>2. out \o <<>> = out /\ <<>> \in Seq(SdsMessages)
    <3> HIDE DEF SdsMessages
    <3> QED BY ConcatEmptySeq
  <2>3. ASSUME NEW t, SdsBegins(t, s2)
        PROVE  /\ t \in Seq(SdsBytes) /\ Len(t) \in Nat /\ l + 1 <= Len(t) /\ t[l + 1] = b
               /\ SdsBegins(t, s) /\ \A i \in 1..l : t[i] = s[i]
    <3>1. SdsBegins(t, s) /\ l + 1 <= Len(t) /\ t[l + 1] = b BY <2>3, BeginsLess
    <3>2. t \in Seq(SdsBytes) /\ \A i \in 1..l : t[i] = s[i] BY <3>1 DEF SdsBegins
    <3> QED BY <3>1, <3>2
  <2> QED BY <2>1, <2>2, <2>3
<1>4. HEAD \in SdsBytes /\ DATA \in SdsBytes /\ ACK \in SdsBytes /\ HEAD \notin {DATA, ACK}
  BY DEF HEAD, DATA, ACK, SdsBytes
<1>5. ASSUME NEW msgs \in Seq(SdsMessages), NEW n \in Nat, p + n <= l + 2,
             \A t : SdsBegins(t, s2) => FramesFrom(t)[p] = msgs \o FramesFrom(t)[p + n]
      PROVE  Reached(s2, out \o msgs, p + n)
  BY <1>1, <1>5, ReachedStep
<1> HIDE DEF s2, l, SdsMessages
<1>6. ASSUME NEW n \in Nat, p + n <= l + 2, \A t : SdsBegins(t, s2) => FramesFrom(t)[p] = FramesFrom(t)[p + n]
      PROVE  Reached(s2, out, p + n)
  <2>1. ASSUME NEW t, SdsBegins(t, s2) PROVE FramesFrom(t)[p] = <<>> \o FramesFrom(t)[p + n]
    <3>1. p + n \in 1..(Len(t) + 1) /\ t \in Seq(SdsBytes) BY <1>1, <1>3, <1>6, <2>1
    <3>2. FramesFrom(t)[p + n] \in Seq(SdsMessages) BY <3>1, FramesAreMessages
    <3>3. <<>> \o FramesFrom(t)[p + n] = FramesFrom(t)[p + n] BY <3>2, ConcatEmptySeq
    <3> QED BY <1>6, <2>1, <3>3
  <2>2. Reached(s2, out \o <<>>, p + n) BY <1>3, <1>5, <1>6, <2>1
  <2> QED BY <1>3, <2>2
<1>7. CASE q.state = "SYNC1"
  <2>1. p = l + 1 BY <1>7 DEF ParserIsAt, l
  <2>2. Published(q, b) = <<>> BY <1>7 DEF Published
  <2>3. CASE b = HEAD
    <3>1. q2 = [q EXCEPT !.state = "SYNC2"] BY <1>7, <2>3 DEF feed
    <3>2. q2 \in SdsParsers /\ q2.state = "SYNC2" BY <3>1 DEF SdsParsers
    <3> HIDE DEF q2
    <3>3. ParserIsAt(s2, out, p, q2) BY <1>1, <1>3, <2>1, <2>3, <3>2 DEF ParserIsAt
    <3> QED BY <1>3, <2>2, <3>2, <3>3 DEF q2, s2
  <2>4. CASE b # HEAD
    <3>1. q2 = q BY <1>7, <2>4 DEF feed
    <3>2. ASSUME NEW t, SdsBegins(t, s2) PROVE FramesFrom(t)[p] = FramesFrom(t)[p + 1]
      <4>1. p \in 1..Len(t) /\ t[p] # HEAD BY <1>1, <1>3, <2>1, <2>4, <3>2
      <4>2. FrameWidth(t, p) = 1 BY <4>1 DEF FrameWidth
      <4> QED BY <1>3, <3>2, <4>1, <4>2, NoiseIsSkipped
    <3>3. p + 1 <= l + 2 /\ 1 \in Nat BY <1>1, <2>1
    <3>4. Reached(s2, out, p + 1) BY <1>6, <3>2, <3>3
    <3>5. ParserIsAt(s2, out, p + 1, q) BY <1>1, <1>7, <2>1, <3>4 DEF ParserIsAt
    <3> QED BY <1>3, <2>2, <3>1, <3>5 DEF s2
  <2> QED BY <2>3, <2>4
<1>8. CASE q.state = "SYNC2"
  <2>1. p = l /\ s[p] = HEAD /\ p \in 1..l BY <1>1, <1>8 DEF ParserIsAt, l
  <2>2. Published(q, b) = <<>> /\ q2 = AfterHead(q, b) BY <1>8 DEF Published, feed
  <2>3. CASE b \in {DATA, ACK}
    <3>1. q2 = [q EXCEPT !.state = "DAT", !.type = b, !.data = <<>>, !.ck = 0] BY <2>2, <2>3 DEF AfterHead
    <3>2. /\ q2.state = "DAT" /\ q2.type = b /\ q2.data = <<>> /\ q2.ck = 0
          /\ q2 \in SdsParsers
      <4>1. q2 = [state |-> "DAT", type |-> b, data |-> <<>>, ck |-> 0] BY <1>2, <3>1
      <4>2. <<>> \in Seq(SdsBytes) /\ 0 \in 0..255 BY WrapsToByte
      <4> HIDE DEF q2
      <4>3. q2 \in SdsParsers BY <4>1, <4>2, ParserIsParser
      <4> QED BY <4>1, <4>3
    <3> HIDE DEF q2
    <3>3. FrameBegun(s2, p, q2)
      <4>1. Len(q2.data) = 0 /\ 0 % 256 = 0 BY <3>2
      <4>2. DataSum(q2.data) = 0 BY <4>1 DEF DataSum, DataByte
      <4>3. s2[p] = HEAD /\ s2[p + 1] = b BY <1>1, <2>1
      <4> QED BY <2>3, <3>2, <4>1, <4>2, <4>3 DEF FrameBegun
    <3>4. Len(q2.data) = 0 BY <3>2
    <3>5. ParserIsAt(s2, out, p, q2) BY <1>1, <1>3, <2>1, <3>2, <3>3, <3>4 DEF ParserIsAt
    <3> QED BY <1>3, <2>2, <3>2, <3>5 DEF q2, s2
  <2>4. ASSUME NEW t, SdsBegins(t, s2), b \notin {DATA, ACK}
        PROVE  p \in 1..Len(t) /\ FramesFrom(t)[p] = FramesFrom(t)[p + 1]
    <3>1. p \in 1..Len(t) /\ t[p + 1] \notin {DATA, ACK} BY <1>1, <1>3, <2>1, <2>4
    <3>2. FrameWidth(t, p) = 1 BY <3>1 DEF FrameWidth
    <3> QED BY <1>3, <2>4, <3>1, <3>2, NoiseIsSkipped
  <2>5. CASE b = HEAD
    <3>1. q2 = [q EXCEPT !.state = "SYNC2"] BY <1>4, <2>2, <2>5 DEF AfterHead
    <3>2. q2 \in SdsParsers /\ q2.state = "SYNC2" BY <3>1 DEF SdsParsers
    <3> HIDE DEF q2
    <3>3. Reached(s2, out, p + 1) BY <1>1, <1>4, <1>6, <2>1, <2>4, <2>5
    <3>4. ParserIsAt(s2, out, p + 1, q2) BY <1>1, <2>1, <2>5, <3>2, <3>3 DEF ParserIsAt
    <3> QED BY <1>3, <2>2, <3>2, <3>4 DEF q2, s2
  <2>6. CASE b \notin {DATA, ACK} /\ b # HEAD
    <3>1. q2 = [q EXCEPT !.state = "SYNC1"] BY <2>2, <2>6 DEF AfterHead
    <3>2. q2 \in SdsParsers /\ q2.state = "SYNC1" BY <3>1 DEF SdsParsers
    <3> HIDE DEF q2
    <3>3. ASSUME NEW t, SdsBegins(t, s2) PROVE FramesFrom(t)[p] = FramesFrom(t)[p + 2]
      <4>1. FramesFrom(t)[p] = FramesFrom(t)[p + 1] BY <2>4, <2>6, <3>3
      <4>2. p + 1 \in 1..Len(t) /\ t[p + 1] # HEAD BY <1>1, <1>3, <2>1, <2>6, <3>3
      <4>3. FrameWidth(t, p + 1) = 1 BY <4>2 DEF FrameWidth
      <4>4. FramesFrom(t)[p + 1] = FramesFrom(t)[p + 1 + 1] BY <1>3, <3>3, <4>2, <4>3, NoiseIsSkipped
      <4>5. p + 1 + 1 = p + 2 BY <1>1
      <4> QED BY <4>1, <4>4, <4>5
    <3>4. Reached(s2, out, p + 2) BY <1>1, <1>6, <2>1, <3>3
    <3>5. ParserIsAt(s2, out, p + 2, q2) BY <1>1, <2>1, <3>2, <3>4 DEF ParserIsAt
    <3> QED BY <1>3, <2>2, <3>2, <3>5 DEF q2, s2
  <2> QED BY <2>3, <2>5, <2>6
<1>9. CASE q.state = "DAT"
  <2> DEFINE d2 == Append(q.data, b)
             n == Len(q.data)
  <2>1. FrameBegun(s, p, q) /\ n <= 5 /\ l = p + 1 + n BY <1>9 DEF ParserIsAt, l
  <2>2. Published(q, b) = <<>> BY <1>9 DEF Published
  <2>3. q2 = [q EXCEPT !.data = Append(@, b), !.ck = (@ + b) % 256, !.state = IF n = 5 THEN "CHKSM" ELSE "DAT"]
    BY <1>9 DEF feed
  <2>4. /\ q2.state = (IF n = 5 THEN "CHKSM" ELSE "DAT") /\ q2.type = q.type /\ q2.data = d2
        /\ q2.ck = (q.ck + b) % 256
        /\ q2 = [state |-> q2.state, type |-> q2.type, data |-> q2.data, ck |-> q2.ck]
    BY <1>2, <2>3, ZenonT(60)
  <2>5. /\ n \in Nat /\ d2 \in Seq(SdsBytes) /\ Len(d2) = n + 1 /\ d2[n + 1] = b
        /\ \A k \in 1..n : d2[k] = q.data[k]
    BY <1>2
  <2>6. DataSum(q.data) \in Nat /\ DataSum(d2) = DataSum(q.data) + b BY <1>2, <2>1, DataSumGrows
  <2>7. q2.ck = DataSum(d2) % 256 /\ q2.ck \in 0..255
    <3>1. q.ck = DataSum(q.data) % 256 /\ b \in Nat BY <2>1, BytesAreNumbers DEF FrameBegun
    <3>2. q2.ck = (DataSum(q.data) + b) % 256 BY <2>4, <2>6, <3>1, SumWraps
    <3>3. DataSum(q.data) + b \in Nat BY <2>6, <3>1
    <3> HIDE DEF q2
    <3>4. q2.ck \in 0..255 BY <3>2, <3>3, WrapsToByte
    <3> QED BY <2>6, <3>2, <3>4
  <2>8. q2 \in SdsParsers BY <1>2, <2>4, <2>5, <2>7, ZenonT(60) DEF SdsParsers
  <2> HIDE DEF q2, d2, n
  <2>9. FrameBegun(s2, p, q2)
    <3>1. s[p] = HEAD /\ s[p + 1] = q.type /\ q.type \in {DATA, ACK} /\ \A k \in 1..n : s[p + 1 + k] = q.data[k]
      BY <2>1 DEF FrameBegun, n
    <3>2. p \in 1..l /\ p + 1 \in 1..l /\ \A k \in 1..n : p + 1 + k \in 1..l BY <1>1, <2>1, <2>5
    <3>3. s2[p] = HEAD /\ s2[p + 1] = q2.type /\ q2.type \in {DATA, ACK} BY <1>1, <2>4, <3>1, <3>2
    <3>4. \A k \in 1..(n + 1) : s2[p + 1 + k] = d2[k]
      <4>1. \A k \in 1..n : s2[p + 1 + k] = d2[k] BY <1>1, <2>5, <3>1, <3>2
      <4>2. p + 1 + (n + 1) = l + 1 BY <1>1, <2>1, <2>5
      <4>3. s2[p + 1 + (n + 1)] = d2[n + 1] BY <1>1, <2>5, <4>2
      <4>4. \A k \in 1..(n + 1) : k \in 1..n \/ k = n + 1 BY <2>5
      <4> QED BY <4>1, <4>3, <4>4
    <3>5. Len(q2.data) = n + 1 /\ n + 1 <= 6 BY <2>1, <2>4, <2>5
    <3> QED BY <2>4, <2>7, <3>3, <3>4, <3>5 DEF FrameBegun
  <2>10. Len(q2.data) = n + 1 BY <2>4, <2>5
  <2>11. CASE n = 5
    <3>1. q2.state = "CHKSM" /\ Len(q2.data) = 6 /\ Len(s2) = p + 7 BY <1>1, <2>1, <2>4, <2>10, <2>11
    <3>2. ParserIsAt(s2, out, p, q2) BY <1>1, <1>3, <2>9, <3>1 DEF ParserIsAt
    <3> QED BY <1>3, <2>2, <2>8, <3>2 DEF q2, s2
  <2>12. CASE n # 5
    <3>1. q2.state = "DAT" /\ Len(q2.data) <= 5 /\ Len(s2) = p + 1 + Len(q2.data)
      BY <1>1, <2>1, <2>4, <2>5, <2>10, <2>12, SMTT(60)
    <3>2. p \in 1..(Len(s2) + 1) BY <1>1
    <3>3. ParserIsAt(s2, out, p, q2) BY <1>3, <2>9, <3>1, <3>2 DEF ParserIsAt
    <3> QED BY <1>3, <2>2, <2>8, <3>3 DEF q2, s2
  <2> QED BY <2>11, <2>12
<1>10. CASE q.state = "CHKSM"
  <2>1. FrameBegun(s, p, q) /\ Len(q.data) = 6 /\ l = p + 7 BY <1>10 DEF ParserIsAt, l
  <2>2. Published(q, b) = <<>> BY <1>10 DEF Published
  <2>3. CASE b = q.ck
    <3>1. q2 = [q EXCEPT !.state = "TAIL"] BY <1>10, <2>3 DEF feed
    <3>2. /\ q2 \in SdsParsers /\ q2.state = "TAIL" /\ q2.data = q.data /\ q2.type = q.type /\ q2.ck = q.ck
      BY <1>2, <3>1 DEF SdsParsers
    <3> HIDE DEF q2
    <3>3. FrameBegun(s2, p, q2)
      <4>1. p \in 1..l /\ p + 1 \in 1..l /\ \A k \in 1..6 : p + 1 + k \in 1..l
        <5>1. p \in Nat \ {0} /\ l = p + 7 BY <1>1, <2>1
        <5> QED BY <5>1
      <4> QED BY <1>1, <2>1, <3>2, <4>1, ZenonT(60) DEF FrameBegun
    <3>4. Len(s2) = p + 8 /\ s2[p + 8] = q2.ck
      <4>1. p + 8 = l + 1 BY <1>1, <2>1
      <4> QED BY <1>1, <2>3, <3>2, <4>1
    <3>5. ParserIsAt(s2, out, p, q2) BY <1>1, <1>3, <2>1, <3>2, <3>3, <3>4 DEF ParserIsAt
    <3> QED BY <1>3, <2>2, <3>2, <3>5 DEF q2, s2
  <2>4. CASE b # q.ck
    <3>1. q2 = [q EXCEPT !.state = "SYNC1", !.ck = 0] BY <1>10, <2>4 DEF feed
    <3>2. q2 \in SdsParsers /\ q2.state = "SYNC1"
      <4>1. q2 = [state |-> "SYNC1", type |-> q.type, data |-> q.data, ck |-> 0] BY <1>2, <3>1
      <4> HIDE DEF q2
      <4>2. q2 \in SdsParsers BY <1>2, <4>1, WrapsToByte, ParserIsParser
      <4> QED BY <4>1, <4>2
    <3> HIDE DEF q2
    <3>3. ASSUME NEW t, SdsBegins(t, s2) PROVE FramesFrom(t)[p] = FramesFrom(t)[p + 9]
      <4>1. /\ t[p] = HEAD /\ t[p + 1] = q.type /\ q.type \in {DATA, ACK} /\ FrameCheck(t, p) = q.ck
        <5>1. p \in Nat \ {0} /\ p + 7 <= l BY <1>1, <2>1
        <5> QED BY <1>3, <2>1, <3>3, <5>1, FrameIsKnown DEF l
      <4>2. p + 8 = l + 1 /\ t[p + 8] = b /\ p + 8 <= Len(t) /\ p \in 1..Len(t) /\ p + 9 \in 1..(Len(t) + 1)
            /\ p \in 1..(Len(t) + 1) /\ t \in Seq(SdsBytes)
        BY <1>1, <1>3, <2>1, <3>3
      <4>3. FrameWidth(t, p) = 9 BY <2>4, <4>1, <4>2 DEF FrameWidth
      <4>4. p \in DOMAIN FrameWidths(t) /\ FrameWidths(t)[p] = 9 BY <1>1, <4>2, <4>3 DEF FrameWidths
      <4>5. FrameMessages(t)[p] = <<>> BY <4>3, <4>4 DEF FrameMessages
      <4>6. FramesFrom(t)[p] = <<>> \o FramesFrom(t)[p + 9]
        BY <4>2, <4>4, <4>5, FramesAreRead DEF ReadAt
      <4>7. FramesFrom(t)[p + 9] \in Seq(SdsMessages) BY <4>2, FramesAreMessages
      <4> QED BY <4>6, <4>7, ConcatEmptySeq
    <3>4. Reached(s2, out, p + 9) BY <1>1, <1>6, <2>1, <3>3
    <3>5. ParserIsAt(s2, out, p + 9, q2) BY <1>1, <2>1, <3>2, <3>4 DEF ParserIsAt
    <3> QED BY <1>3, <2>2, <3>2, <3>5 DEF q2, s2
  <2> QED BY <2>3, <2>4
<1>11. CASE q.state = "TAIL"
  <2> DEFINE msgs == Published(q, b)
  <2>1. FrameBegun(s, p, q) /\ Len(q.data) = 6 /\ l = p + 8 /\ s[p + 8] = q.ck BY <1>11 DEF ParserIsAt, l
  <2>2. msgs = IF b = TAIL THEN <<Message(q.type, q.data)>> ELSE <<>> BY <1>11 DEF Published
  <2>3. q2 = [q EXCEPT !.state = "SYNC1", !.ck = 0] BY <1>11 DEF feed
  <2>4. q2 \in SdsParsers /\ q2.state = "SYNC1"
    <3>1. q2 = [state |-> "SYNC1", type |-> q.type, data |-> q.data, ck |-> 0] BY <1>2, <2>3
    <3> HIDE DEF q2
    <3>2. q2 \in SdsParsers BY <1>2, <3>1, WrapsToByte, ParserIsParser
    <3> QED BY <3>1, <3>2
  <2> HIDE DEF q2
  <2>5. msgs \in Seq(SdsMessages)
    <3>1. q.type \in {DATA, ACK} BY <2>1 DEF FrameBegun
    <3>2. Message(q.type, q.data) \in SdsMessages BY <1>2, <3>1 DEF SdsMessages
    <3> QED BY <2>2, <3>2
  <2> HIDE DEF msgs
  <2>6. ASSUME NEW t, SdsBegins(t, s2) PROVE FramesFrom(t)[p] = msgs \o FramesFrom(t)[p + 10]
    <3>1. /\ t[p] = HEAD /\ t[p + 1] = q.type /\ q.type \in {DATA, ACK} /\ FrameCheck(t, p) = q.ck
          /\ SubSeq(t, p + 2, p + 7) = q.data
      <4>1. p \in Nat \ {0} /\ p + 7 <= l BY <1>1, <2>1
      <4>2. SdsBegins(t, s) BY <1>3, <2>6
      <4>3. FrameBegun(s, p, q) /\ Len(q.data) = 6 BY <2>1
      <4>4. p + 7 <= Len(s) BY <4>1 DEF l
      <4> QED BY <4>1, <4>2, <4>3, <4>4, FrameIsKnown, ZenonT(60)
    <3>2. /\ p + 9 = l + 1 /\ t[p + 9] = b /\ p + 9 <= Len(t) /\ p \in 1..Len(t) /\ p \in 1..(Len(t) + 1)
          /\ t \in Seq(SdsBytes) /\ p + 8 \in 1..l
      BY <1>1, <1>3, <2>1, <2>6
    <3>3. t[p + 8] = q.ck BY <1>3, <2>1, <2>6, <3>2
    <3>4. FrameWidth(t, p) = 10 BY <3>1, <3>3 DEF FrameWidth
    <3>5. p \in DOMAIN FrameWidths(t) /\ FrameWidths(t)[p] = 10 BY <1>1, <1>3, <2>6, <3>2, <3>4 DEF FrameWidths
    <3>6. FrameMessages(t)[p] = IF t[p + 9] = TAIL THEN <<Message(t[p + 1], SubSeq(t, p + 2, p + 7))>> ELSE <<>>
      BY <3>4, <3>5 DEF FrameMessages
    <3>7. FrameMessages(t)[p] = msgs BY <2>2, <3>1, <3>2, <3>6
    <3>8. FramesFrom(t)[p] = ReadAt(FramesFrom(t), FrameWidths(t), FrameMessages(t), p)
      BY <3>2, FramesAreRead
    <3>9. FramesFrom(t)[p] = FrameMessages(t)[p] \o FramesFrom(t)[p + FrameWidths(t)[p]]
      BY <3>5, <3>8 DEF ReadAt
    <3> QED BY <3>5, <3>7, <3>9
  <2>7. Reached(s2, out \o msgs, p + 10)
    <3>1. p + 10 <= l + 2 /\ 10 \in Nat BY <1>1, <2>1
    <3> QED BY <1>5, <2>5, <2>6, <3>1
  <2>8. ParserIsAt(s2, out \o msgs, p + 10, q2) BY <1>1, <2>1, <2>4, <2>7 DEF ParserIsAt
  <2> QED BY <2>4, <2>5, <2>8 DEF q2, s2, msgs
<1> QED BY <1>7, <1>8, <1>9, <1>10, <1>11 DEF SdsParsers

\* Of a frame that is not complete nothing is read yet.
LEMMA NothingFromHere ==
    ASSUME NEW s \in Seq(SdsBytes), NEW out \in Seq(SdsMessages), NEW q \in SdsParsers, NEW p, ParserIsAt(s, out, p, q)
    PROVE  out = FramesIn(s)
<1> DEFINE l == Len(s)
<1>1. l \in Nat /\ p \in 1..(l + 1) /\ Reached(s, out, p) /\ p \in Nat \ {0}
  <2>1. p \in 1..(l + 1) /\ Reached(s, out, p) /\ l \in Nat BY DEF ParserIsAt
  <2> HIDE DEF l
  <2> QED BY <2>1
<1>2. p \notin DOMAIN FrameWidths(s)
  <2>1. CASE q.state # "TAIL"
    <3>1. p + 8 > l
      <4>1. \/ p = l + 1 \/ p = l \/ l = p + 7
            \/ l = p + 1 + Len(q.data) /\ Len(q.data) <= 5
        BY <2>1 DEF ParserIsAt
      <4> DEFINE n == Len(q.data)
      <4>2. n \in Nat BY DEF SdsParsers
      <4>3. l \in Nat /\ p \in Nat BY <1>1
      <4> HIDE DEF l, n
      <4>4. \A m, i, j \in Nat : (i = m + 1 \/ i = m \/ m = i + 7 \/ (m = i + 1 + j /\ j <= 5)) => i + 8 > m BY SMT
      <4> QED BY <4>1, <4>2, <4>3, <4>4 DEF n
    <3>2. p \in DOMAIN FrameWidths(s) => p + 8 <= l BY DEF FrameWidths
    <3> HIDE DEF l
    <3> QED BY <1>1, <3>1, <3>2
  <2>2. CASE q.state = "TAIL"
    <3>1. FrameBegun(s, p, q) /\ Len(q.data) = 6 /\ l = p + 8 /\ s[p + 8] = q.ck BY <2>2 DEF ParserIsAt
    <3>2. SdsBegins(s, s) BY DEF SdsBegins
    <3>3. p + 7 <= Len(s) BY <1>1, <3>1
    <3>4. s[p] = HEAD /\ s[p + 1] \in {DATA, ACK} /\ FrameCheck(s, p) = q.ck
      BY <1>1, <3>1, <3>2, <3>3, FrameIsKnown, SMTT(30)
    <3>5. FrameWidth(s, p) = 10 BY <3>1, <3>4 DEF FrameWidth
    <3>6. p \in DOMAIN FrameWidths(s) => p + 10 - 1 <= l BY <3>5 DEF FrameWidths
    <3> HIDE DEF l
    <3> QED BY <1>1, <3>1, <3>6
  <2> QED BY <2>1, <2>2
<1>3. FramesFrom(s)[p] = <<>>
  <2>1. FramesFrom(s)[p] = ReadAt(FramesFrom(s), FrameWidths(s), FrameMessages(s), p) BY <1>1, FramesAreRead
  <2> QED BY <1>2, <2>1 DEF ReadAt
<1>4. SdsBegins(s, s) BY DEF SdsBegins
<1>5. FramesFrom(s)[1] = out \o <<>> BY <1>1, <1>3, <1>4 DEF Reached
<1>6. out \o <<>> = out
  <2> HIDE DEF SdsMessages
  <2> QED BY ConcatEmptySeq
<1> QED BY <1>5, <1>6 DEF FramesIn

-----------------------------------------------------------------------------
(* The dust sensor.                                                         *)

SdsCommands == {"period 0", "work"}

\* What the parser and the line carry.
SdsParserIInv ==
    /\ sdsLine \in Seq(SdsBytes) /\ sdsRead \in Seq(SdsBytes)
    /\ sdsParser \in SdsParsers /\ sdsOut \in Seq(SdsMessages)
    /\ \E p : ParserIsAt(sdsRead, sdsOut, p, sdsParser)

\* What was posted, waits and was sent.
SdsWriterIInv ==
    /\ sdsPosted \in Seq(SdsCommands) /\ tx_queue_ \in Seq(SdsCommands) /\ sdsSent \in Seq(SdsCommands)
    /\ sdsWriting \in BOOLEAN
    /\ sdsState = "new" => sdsPosted = <<>> /\ tx_queue_ = <<>> /\ sdsSent = <<>>
    /\ sdsState = "open" => sdsSent \o tx_queue_ \o sdsPosted = CommandsFor(sdsSleep)
    /\ sdsState = "open" /\ tx_queue_ # <<>> => sdsWriting
    /\ sdsWriting => tx_queue_ # <<>>

LEMMA SdsParserBegins == ASSUME SdsInit PROVE SdsParserIInv
<1>1. /\ sdsParser = [state |-> "SYNC1", type |-> DATA, data |-> <<>>, ck |-> 0]
      /\ sdsOut = <<>> /\ sdsLine = <<>> /\ sdsRead = <<>>
  BY DEF SdsInit, NoFrame
<1>2. <<>> \in Seq(SdsBytes) /\ <<>> \in Seq(SdsMessages) /\ Len(<<>>) = 0 /\ 1 \in 1..(0 + 1) /\ DATA \in SdsBytes
  <2>1. DATA \in SdsBytes BY DEF DATA, SdsBytes
  <2> HIDE DEF SdsMessages
  <2> QED BY <2>1
<1>3. sdsParser \in SdsParsers BY <1>1, <1>2, WrapsToByte, ParserIsParser
<1>4. Reached(<<>>, <<>>, 1)
  <2> SUFFICES ASSUME NEW t, SdsBegins(t, <<>>) PROVE FramesFrom(t)[1] = <<>> \o FramesFrom(t)[1]
    BY DEF Reached
  <2>1. t \in Seq(SdsBytes) /\ 1 \in 1..(Len(t) + 1)
    <3>1. t \in Seq(SdsBytes) BY DEF SdsBegins
    <3>2. Len(t) \in Nat BY <3>1
    <3> QED BY <3>1, <3>2
  <2>2. FramesFrom(t)[1] \in Seq(SdsMessages) BY <2>1, FramesAreMessages
  <2> QED BY <2>2, ConcatEmptySeq
<1>5. ParserIsAt(sdsRead, sdsOut, 1, sdsParser) BY <1>1, <1>2, <1>4 DEF ParserIsAt
<1> QED BY <1>1, <1>2, <1>3, <1>5 DEF SdsParserIInv

LEMMA SdsParserKeeps == ASSUME SdsParserIInv, [SdsNext]_sdsVars PROVE SdsParserIInv'
<1>1. CASE startAsyncRead
  <2> DEFINE b == Head(sdsLine)
             q == sdsParser
  <2>1. sdsLine # <<>> /\ sdsLine \in Seq(SdsBytes) /\ sdsRead \in Seq(SdsBytes) /\ q \in SdsParsers /\ sdsOut \in Seq(SdsMessages)
    BY <1>1 DEF startAsyncRead, SdsParserIInv
  <2>2. /\ sdsParser' = feed(q, b) /\ sdsOut' = sdsOut \o Published(q, b)
        /\ sdsRead' = Append(sdsRead, b) /\ sdsLine' = Tail(sdsLine)
    BY <1>1 DEF startAsyncRead
  <2>3. b \in SdsBytes /\ Tail(sdsLine) \in Seq(SdsBytes) /\ Append(sdsRead, b) \in Seq(SdsBytes)
    BY <2>1, HeadTailProperties
  <2>4. PICK p : ParserIsAt(sdsRead, sdsOut, p, q) BY DEF SdsParserIInv
  <2> HIDE DEF b, q
  <2>5. /\ feed(q, b) \in SdsParsers /\ Published(q, b) \in Seq(SdsMessages)
        /\ \E p2 : ParserIsAt(Append(sdsRead, b), sdsOut \o Published(q, b), p2, feed(q, b))
    BY <2>1, <2>3, <2>4, FeedKeeps
  <2>6. sdsOut \o Published(q, b) \in Seq(SdsMessages)
    <3> HIDE DEF SdsMessages
    <3> QED BY <2>1, <2>5, ConcatProperties
  <2> QED BY <2>2, <2>3, <2>5, <2>6 DEF SdsParserIInv
<1>2. CASE SdsArrive
  <2>1. /\ sdsLine' \in SdsPieces
        /\ sdsParser' = sdsParser /\ sdsOut' = sdsOut /\ sdsRead' = sdsRead
    BY <1>2 DEF SdsArrive
  <2>2. sdsLine' \in Seq(SdsBytes) BY <2>1, Sds011Assumption
  <2> QED BY <2>1, <2>2 DEF SdsParserIInv
<1>3. CASE UNCHANGED <<sdsLine, sdsRead, sdsParser, sdsOut>>
  BY <1>3 DEF SdsParserIInv
<1>4. startAsyncRead \/ SdsArrive \/ UNCHANGED <<sdsLine, sdsRead, sdsParser, sdsOut>>
  BY DEF SdsNext, sdsVars, sdsParserVars, ReadError, SdsConstruct, enqueueMessage, do_write
<1> QED BY <1>1, <1>2, <1>3, <1>4

LEMMA SdsWriterBegins == ASSUME SdsInit PROVE SdsWriterIInv
<1>1. sdsPosted = <<>> /\ tx_queue_ = <<>> /\ sdsSent = <<>> /\ sdsWriting = FALSE /\ sdsState = "new"
  BY DEF SdsInit
<1>2. <<>> \in Seq(SdsCommands) OBVIOUS
<1> QED BY <1>1, <1>2 DEF SdsWriterIInv

LEMMA SdsWriterKeeps == ASSUME SdsWriterIInv, [SdsNext]_sdsVars PROVE SdsWriterIInv'
<1> DEFINE C == SdsCommands
<1>1. /\ sdsPosted \in Seq(C) /\ tx_queue_ \in Seq(C) /\ sdsSent \in Seq(C) /\ sdsWriting \in BOOLEAN
      /\ sdsState = "new" => sdsPosted = <<>> /\ tx_queue_ = <<>> /\ sdsSent = <<>>
      /\ sdsState = "open" => sdsSent \o tx_queue_ \o sdsPosted = CommandsFor(sdsSleep)
      /\ sdsState = "open" /\ tx_queue_ # <<>> => sdsWriting
      /\ sdsWriting => tx_queue_ # <<>>
  BY DEF SdsWriterIInv
<1> HIDE DEF C
<1>2. CASE SdsConstruct
  <2>1. /\ sdsState = "new" /\ tx_queue_' = tx_queue_ /\ sdsWriting' = sdsWriting /\ sdsSent' = sdsSent
        /\ sdsSleep' = sdsSleep
        /\ \/ sdsState' = "closed" /\ sdsPosted' = sdsPosted
           \/ sdsState' = "open" /\ sdsPosted' = setMode(sdsSleep)
    BY <1>2 DEF SdsConstruct
  <2>2. setMode(sdsSleep) \in Seq(C) /\ setMode(sdsSleep) = CommandsFor(sdsSleep)
    <3>1. "period 0" \in C /\ "work" \in C BY DEF C, SdsCommands
    <3>2. <<>> \in Seq(C) /\ \A a, b \in C : <<a, b>> \in Seq(C) OBVIOUS
    <3> QED BY <3>1, <3>2 DEF setMode, CommandsFor, Promised
  <2>3. <<>> \o <<>> \o setMode(sdsSleep) = setMode(sdsSleep) BY <2>2, ConcatEmptySeq, EmptySeq
  <2> HIDE DEF C
  <2> QED BY <1>1, <2>1, <2>2, <2>3 DEF SdsWriterIInv, C
<1>3. CASE enqueueMessage
  <2> DEFINE m == Head(sdsPosted)
             rest == Tail(sdsPosted)
  <2>1. /\ sdsPosted # <<>> /\ sdsPosted' = rest /\ tx_queue_' = Append(tx_queue_, m)
        /\ sdsWriting' = (sdsWriting \/ tx_queue_ = <<>>)
        /\ sdsSent' = sdsSent /\ sdsSleep' = sdsSleep /\ sdsState' = sdsState
    BY <1>3 DEF enqueueMessage
  <2>2. m \in C /\ rest \in Seq(C) /\ sdsPosted = <<m>> \o rest BY <1>1, <2>1, HeadTailProperties, HeadTailAppend
  <2> HIDE DEF m, rest
  <2>3. Append(tx_queue_, m) \in Seq(C) /\ Append(tx_queue_, m) # <<>> /\ Append(tx_queue_, m) = tx_queue_ \o <<m>>
    BY <1>1, <2>2, AppendProperties, AppendIsConcat
  <2>4. sdsSent \o Append(tx_queue_, m) \o rest = sdsSent \o tx_queue_ \o sdsPosted
    <3>1. <<m>> \in Seq(C) BY <2>2
    <3>2. sdsSent \o (tx_queue_ \o <<m>>) = (sdsSent \o tx_queue_) \o <<m>> BY <1>1, <3>1, ConcatAssociative
    <3>3. sdsSent \o tx_queue_ \in Seq(C) BY <1>1, ConcatProperties
    <3>4. ((sdsSent \o tx_queue_) \o <<m>>) \o rest = (sdsSent \o tx_queue_) \o (<<m>> \o rest)
      BY <2>2, <3>1, <3>3, ConcatAssociative
    <3> QED BY <2>2, <2>3, <3>2, <3>4
  <2> QED BY <1>1, <2>1, <2>2, <2>3, <2>4 DEF SdsWriterIInv, C
<1>4. CASE do_write
  <2> DEFINE m == Head(tx_queue_)
             rest == Tail(tx_queue_)
  <2>1. /\ sdsWriting /\ sdsPosted' = sdsPosted /\ sdsSleep' = sdsSleep
        /\ \/ /\ tx_queue_' = rest /\ sdsWriting' = (rest # <<>>) /\ sdsSent' = Append(sdsSent, m)
              /\ sdsState' = sdsState
           \/ sdsWriting' = FALSE /\ sdsState' = "stuck" /\ tx_queue_' = tx_queue_ /\ sdsSent' = sdsSent
    BY <1>4 DEF do_write
  <2>2. tx_queue_ # <<>> BY <1>1, <2>1
  <2>3. m \in C /\ rest \in Seq(C) /\ tx_queue_ = <<m>> \o rest BY <1>1, <2>2, HeadTailProperties, HeadTailAppend
  <2> HIDE DEF m, rest
  <2>4. Append(sdsSent, m) \in Seq(C) /\ Append(sdsSent, m) = sdsSent \o <<m>>
    BY <1>1, <2>3, AppendProperties, AppendIsConcat
  <2>5. Append(sdsSent, m) \o rest = sdsSent \o tx_queue_
    <3>1. <<m>> \in Seq(C) BY <2>3
    <3>2. (sdsSent \o <<m>>) \o rest = sdsSent \o (<<m>> \o rest) BY <1>1, <2>3, <3>1, ConcatAssociative
    <3> QED BY <2>3, <2>4, <3>2
  <2> QED BY <1>1, <2>1, <2>2, <2>3, <2>4, <2>5 DEF SdsWriterIInv, C
<1>5. CASE UNCHANGED <<sdsWriterVars, sdsSleep, sdsState>>
  BY <1>5 DEF SdsWriterIInv, sdsWriterVars
<1>6. SdsConstruct \/ enqueueMessage \/ do_write \/ UNCHANGED <<sdsWriterVars, sdsSleep, sdsState>>
  BY DEF SdsNext, sdsVars, startAsyncRead, ReadError, SdsArrive
<1> QED BY <1>2, <1>3, <1>4, <1>5, <1>6

\* Whatever the line carries, exactly the messages in it are published, in order, and the sensor gets
\* its commands in order, none twice and all of them once nothing is left to write, unless a write
\* failed (Sds011Parser::feed, enqueueMessage and do_write).
THEOREM DustSensorIsServed == SdsSpec => []SensorIsServed
<1>1. SdsInit => SdsParserIInv /\ SdsWriterIInv BY SdsParserBegins, SdsWriterBegins
<1>2. SdsParserIInv /\ SdsWriterIInv /\ [SdsNext]_sdsVars => SdsParserIInv' /\ SdsWriterIInv'
  BY SdsParserKeeps, SdsWriterKeeps
<1>3. SdsParserIInv /\ SdsWriterIInv => SensorIsServed
  <2> SUFFICES ASSUME SdsParserIInv, SdsWriterIInv PROVE SensorIsServed OBVIOUS
  <2>1. sdsOut = FramesIn(sdsRead) BY NothingFromHere DEF SdsParserIInv
  <2> QED BY <2>1 DEF SdsWriterIInv, SensorIsServed
<1> QED BY <1>1, <1>2, <1>3, PTL DEF SdsSpec
=============================================================================
