--------------------------- MODULE EventBusProofs ---------------------------
(***************************************************************************)
(* Proofs about the event bus, for any number of workers, of publishing    *)
(* threads, of events, types and handlers.  The bus only adds to the steps *)
(* of the pool, so what is proved of the pool holds under the bus; what is *)
(* new is that an event reaches the handlers of its snapshot.              *)
(***************************************************************************)
EXTENDS EventBus, ThreadPoolProofs, SequenceTheorems

USE DEF AppendHandler, HandlersOf, LoopEnded

(***************************************************************************)
(* The bus implements the pool.                                            *)
(***************************************************************************)

LEMMA BusStepIsPoolStep == [BusNext]_allVars => [Next]_vars
<1> SUFFICES ASSUME [BusNext]_allVars PROVE [Next]_vars OBVIOUS
<1>1. ASSUME NEW y \in Types, NEW h \in Handlers, Subscribe(y, h) PROVE [Next]_vars
  BY <1>1 DEF Subscribe
<1>2. ASSUME NEW t \in Threads, NEW y \in Types, Publish(t, y) PROVE [Next]_vars
  BY <1>2 DEF Publish, Next
<1>3. ASSUME NEW t \in Threads, PoolStep(t) PROVE [Next]_vars
  BY <1>3 DEF PoolStep, Next
<1>4. ASSUME NEW w \in Workers, PoolWorkerStep(w) PROVE [Next]_vars
  BY <1>4 DEF PoolWorkerStep, Next, WorkerStep
<1>5. ASSUME NEW w \in Workers, BusWorkerStep(w) \/ HandlerThrow(w) PROVE [Next]_vars
  <2>1. CASE BusTake(w) BY <2>1 DEF BusTake, Next, WorkerStep
  <2>2. CASE HandlerCall(w) \/ HandlerReturn(w) \/ HandlerThrow(w)
    BY <2>2 DEF HandlerCall, HandlerReturn, HandlerThrow
  <2>3. CASE BusFinish(w) BY <2>3 DEF BusFinish, Next, WorkerStep
  <2> QED BY <1>5, <2>1, <2>2, <2>3 DEF BusWorkerStep
<1>6. ASSUME NEW w \in Workers, WakeSpurious(w) PROVE [Next]_vars
  BY <1>6 DEF Next
<1>7. CASE (StopClear \/ StopStep) /\ UNCHANGED busVars BY <1>7 DEF Next
<1>8. CASE UNCHANGED allVars BY <1>8 DEF allVars
<1> QED BY <1>1, <1>2, <1>3, <1>4, <1>5, <1>6, <1>7, <1>8 DEF BusNext

(* Every behaviour of the bus is one of the pool: handlers that publish,    *)
(* return or throw are jobs that enqueue and end (event_bus.h:46).          *)
THEOREM BusImplementsPool == BusSpec => Spec
<1>1. BusInit => Init BY DEF BusInit
<1> QED BY <1>1, BusStepIsPoolStep, PTL DEF BusSpec, Spec

(* So the promises of the pool hold with the daemon's handlers as its jobs: *)
(* no event is lost or handled twice, no worker sleeps over one, stop() is  *)
(* final, and events are begun in the order of their publication.           *)
THEOREM BusKeepsPool ==
    BusSpec => [](EachJobOnce /\ NoIdleWhileWork /\ StopIsFinal) /\ ImplementsJobQueue
BY BusImplementsPool, PoolEachJobOnce, PoolNoIdleWhileWork, PoolStopIsFinal,
   PoolImplementsJobQueue, PTL

-----------------------------------------------------------------------------
(***************************************************************************)
(* The inductive invariant of the bus.                                     *)
(***************************************************************************)

BusTypeOK ==
    /\ subscribers \in [Types -> Seq(Handlers)]
    /\ event \in [Jobs -> [type : Types \cup {NoEvent.type}, handlers : Seq(Handlers)]]
    /\ rest \in [Workers -> Seq(Handlers)]
    /\ inside \subseteq Workers
    /\ ran \in [Jobs -> Seq(Handlers)]
    /\ threw \subseteq Jobs

\* A job nobody has begun has called nothing.
NotBegun == \A j \in Jobs : j \notin Active \cup done => ran[j] = <<>> /\ j \notin threw

\* What a worker has called and what it has still to call make up the snapshot; after an
\* exception nothing is left to call.
InProgress ==
    /\ \A w \in Running : job[w] \in Jobs /\ job[w] \notin threw =>
          event[job[w]].handlers = ran[job[w]] \o rest[w]
    /\ \A w \in Running : job[w] \in threw => rest[w] = <<>>
    /\ \A w \in inside : w \in Running /\ rest[w] # <<>>

\* How a job has ended.
Ended ==
    /\ \A j \in done : j \notin threw => ran[j] = event[j].handlers
    /\ \A j \in threw : IsPrefix(ran[j], event[j].handlers) /\ Len(ran[j]) < Len(event[j].handlers)

BusIInv == BusTypeOK /\ NotBegun /\ InProgress /\ Ended

\* A handler that returned moves from the ones to call to the ones called.
LEMMA OneCalled ==
    ASSUME NEW S, NEW r \in Seq(S), NEW t \in Seq(S), t # <<>>
    PROVE  Append(r, Head(t)) \o Tail(t) = r \o t
<1>1. t = <<Head(t)>> \o Tail(t) /\ <<Head(t)>> \in Seq(S) /\ Tail(t) \in Seq(S) BY HeadTailProperties
<1>2. Append(r, Head(t)) = r \o <<Head(t)>> BY <1>1, HeadTailProperties, AppendIsConcat
<1>3. (r \o <<Head(t)>>) \o Tail(t) = r \o (<<Head(t)>> \o Tail(t)) BY <1>1, ConcatAssociative
<1> QED BY <1>1, <1>2, <1>3

LEMMA CalledIsPrefix ==
    ASSUME NEW S, NEW r \in Seq(S), NEW t \in Seq(S)
    PROVE  /\ IsPrefix(r, r \o t)
           /\ t # <<>> => Len(r) < Len(r \o t)
<1>1. Len(r \o t) = Len(r) + Len(t) /\ Len(r) \in Nat /\ Len(t) \in Nat OBVIOUS
<1>2. SubSeq(r \o t, 1, Len(r)) = r BY SubSeqOfConcat1, SubSeqFull, <1>1
<1>3. SubSeq(r, 1, Len(r)) = r BY SubSeqFull
<1>4. t # <<>> => Len(t) > 0 BY EmptySeq
<1> QED BY <1>1, <1>2, <1>3, <1>4 DEF IsPrefix

\* Steps that begin and end no job and call no handler.
LEMMA BusIInvKept ==
    ASSUME BusIInv, Running' = Running, job' = job, done' = done, UNCHANGED busVars
    PROVE  BusIInv'
<1>1. Active' = {job'[v] : v \in Running'} BY DEF Active
<1>2. Active' = Active BY <1>1 DEF Active
<1> QED BY <1>2 DEF BusIInv, BusTypeOK, NotBegun, InProgress, Ended, busVars

\* What the invariant of the pool says of the jobs being run.
LEMMA JobsOfTheRunning ==
    ASSUME IInv
    PROVE  /\ Active \subseteq Jobs /\ Active \cap done = {}
           /\ \A w \in Running : job[w] \in Active /\ w \in Workers
           /\ \A v, w \in Running : job[v] = job[w] => v = w
           /\ next \notin Active \cup done
           /\ Elements(tasks) \subseteq Jobs
           /\ Elements(tasks) \cap (Active \cup done) = {}
<1>1. next \in 1..(MaxJobs + 1) /\ MaxJobs \in Nat
  BY ThreadPoolAssumption DEF IInv, TypeOK
<1>2. 1..(next - 1) \subseteq Jobs /\ next \notin 1..(next - 1) BY <1>1 DEF Jobs
<1>3. Held \cup Elements(tasks) \cup Active \cup done \cup dropped = 1..(next - 1)
  BY DEF IInv, Partition
<1>4. Active \cap done = {} /\ Elements(tasks) \cap (Active \cup done) = {}
  BY DEF IInv, Partition, Apart
<1>5. \A w \in Running : job[w] \in Active /\ w \in Workers BY DEF Active, Running
<1> QED BY <1>2, <1>3, <1>4, <1>5 DEF IInv, OneHolder

LEMMA BusInitIInv == BusInit => BusIInv
<1> SUFFICES ASSUME BusInit PROVE BusIInv OBVIOUS
<1>1. BusTypeOK
  <2>1. NoEvent \in [type : Types \cup {NoEvent.type}, handlers : Seq(Handlers)] BY DEF NoEvent
  <2> HIDE DEF NoEvent
  <2> QED BY <2>1 DEF BusInit, BusTypeOK
<1>2. Running = {} BY DEF BusInit, Init, Running
<1> QED BY <1>1, <1>2 DEF BusInit, Init, BusIInv, NotBegun, InProgress, Ended

LEMMA BusIInvStep == ASSUME IInv, BusIInv, [BusNext]_allVars PROVE BusIInv'
<1>t. TypeOK /\ OneHolder BY DEF IInv
<1>a. BusTypeOK /\ NotBegun /\ InProgress /\ Ended BY DEF BusIInv
<1>b. /\ Active \subseteq Jobs /\ Active \cap done = {}
      /\ \A w \in Running : job[w] \in Active /\ w \in Workers
      /\ \A v, w \in Running : job[v] = job[w] => v = w
      /\ next \notin Active \cup done
      /\ Elements(tasks) \subseteq Jobs
      /\ Elements(tasks) \cap (Active \cup done) = {}
  BY JobsOfTheRunning
<1>c. threw \subseteq Active \cup done BY <1>a DEF NotBegun, BusTypeOK
<1>d. UNCHANGED <<wpc, job>> => Active' = Active /\ Running' = Running BY ActiveUnchanged
<1>1. ASSUME NEW y \in Types, NEW h \in Handlers, Subscribe(y, h) PROVE BusIInv'
  <2>1. UNCHANGED <<wpc, job, done, event, rest, inside, ran, threw>> BY <1>1 DEF Subscribe, vars
  <2>2. subscribers' \in [Types -> Seq(Handlers)] BY <1>1, <1>a DEF Subscribe, BusTypeOK
  <2>3. BusTypeOK' BY <2>1, <2>2, <1>a DEF BusTypeOK
  <2> QED BY <2>1, <2>3, <1>d, <1>a DEF BusIInv, NotBegun, InProgress, Ended
<1>2. ASSUME NEW t \in Threads, NEW y \in Types, Publish(t, y) PROVE BusIInv'
  <2>1. UNCHANGED <<wpc, job, done, subscribers, rest, inside, ran, threw>>
    BY <1>2 DEF Publish, Enqueue
  <2>2. /\ event' = [event EXCEPT ![next] = [type |-> y, handlers |-> subscribers[y]]]
        /\ subscribers[y] \in Seq(Handlers)
    BY <1>2, <1>a DEF Publish, BusTypeOK
  <2>3. BusTypeOK' BY <2>1, <2>2, <1>a DEF BusTypeOK
  <2>4. \A j \in Jobs : j # next => event'[j] = event[j] BY <2>2, <1>a DEF BusTypeOK
  <2>5. NotBegun' BY <2>1, <1>d, <1>a DEF NotBegun
  <2>6. InProgress' BY <2>1, <2>4, <1>b, <1>d, <1>a DEF InProgress
  <2>7. done \subseteq Jobs BY <1>t DEF TypeOK
  <2>8. Ended' BY <2>1, <2>4, <2>7, <1>b, <1>c, <1>a DEF Ended
  <2> QED BY <2>3, <2>5, <2>6, <2>8 DEF BusIInv
<1>3. ASSUME NEW t \in Threads, PoolStep(t) PROVE BusIInv'
  <2>1. UNCHANGED <<wpc, job, done>> /\ UNCHANGED busVars
    BY <1>3 DEF PoolStep, EnqueueStep, EnqueuePush, EnqueueRefused, EnqueueNotify
  <2> QED BY <2>1, <1>d, BusIInvKept
<1>4. ASSUME NEW w \in Workers, PoolWorkerStep(w) \/ (WakeSpurious(w) /\ UNCHANGED busVars)
      PROVE BusIInv'
  <2>1. /\ UNCHANGED <<job, done>> /\ UNCHANGED busVars
        /\ wpc[w] # "run" /\ \E p \in {"check", "wait", "ended"} : wpc' = [wpc EXCEPT ![w] = p]
    BY <1>4 DEF PoolWorkerStep, Sleep, WakeNotified, WakeSpurious, Wake, Exit
  <2>2. Running' = Running BY <2>1, <1>t, IdleWorkerActive
  <2> QED BY <2>1, <2>2, BusIInvKept
<1>5. ASSUME NEW w \in Workers, BusTake(w) PROVE BusIInv'
  <2> DEFINE j == Head(tasks)
  <2>1. Take(w) /\ UNCHANGED <<subscribers, event, inside, ran, threw, done>>
        /\ rest' = [rest EXCEPT ![w] = event[j].handlers]
    BY <1>5 DEF BusTake, Take
  <2>2. j \in Elements(tasks)
    BY <2>1, <1>t, PoppedElements DEF Take, TypeOK, OneHolder
  <2>3. /\ Running' = Running \cup {w} /\ w \notin Running
        /\ job'[w] = j /\ \A v \in Running : job'[v] = job[v]
        /\ Active' = Active \cup {j}
    BY <2>1, <1>t, TakeActive
  <2>4. j \in Jobs /\ j \notin Active \cup done BY <2>2, <1>b
  <2>5. ran[j] = <<>> /\ j \notin threw BY <2>4, <1>a DEF NotBegun
  <2> HIDE DEF j
  <2>6. event[j].handlers \in Seq(Handlers) BY <2>4, <1>a DEF BusTypeOK
  <2>7. BusTypeOK' BY <2>1, <2>6, <1>a DEF BusTypeOK
  <2>8. NotBegun' BY <2>1, <2>3, <1>a DEF NotBegun
  <2>9. rest'[w] = event[j].handlers /\ \A v \in Running : rest'[v] = rest[v]
    BY <2>1, <2>3, <1>b, <1>a DEF BusTypeOK
  <2>10. event[j].handlers = ran[j] \o rest'[w] BY <2>5, <2>6, <2>9, ConcatEmptySeq
  <2>11. InProgress' BY <2>1, <2>3, <2>5, <2>9, <2>10, <1>a DEF InProgress
  <2>12. Ended' BY <2>1, <1>a DEF Ended
  <2> QED BY <2>7, <2>8, <2>11, <2>12 DEF BusIInv
<1>6. ASSUME NEW w \in Workers, HandlerCall(w) PROVE BusIInv'
  <2>1. UNCHANGED <<wpc, job, done, subscribers, event, rest, ran, threw>>
        /\ inside' = inside \cup {w} /\ w \in Running /\ rest[w] # <<>>
    BY <1>6 DEF HandlerCall, vars, Running
  <2>2. BusTypeOK' BY <2>1, <1>a DEF BusTypeOK
  <2>3. NotBegun' /\ Ended' BY <2>1, <1>a, <1>d DEF NotBegun, Ended
  <2>4. InProgress' BY <2>1, <1>a, <1>d DEF InProgress
  <2> QED BY <2>2, <2>3, <2>4 DEF BusIInv
<1>7. ASSUME NEW w \in Workers, HandlerReturn(w) \/ HandlerThrow(w) PROVE BusIInv'
  <2>1. /\ UNCHANGED <<wpc, job, done, subscribers, event>>
        /\ w \in inside /\ inside' = inside \ {w}
    BY <1>7 DEF HandlerReturn, HandlerThrow, vars
  <2> DEFINE j == job[w]
  <2>2. w \in Running /\ rest[w] # <<>> /\ j \in Active /\ j \in Jobs /\ j \notin done
    BY <2>1, <1>a, <1>b DEF InProgress
  <2>3. j \notin threw /\ event[j].handlers = ran[j] \o rest[w]
    BY <2>2, <1>a DEF InProgress
  <2>4. \A v \in Running : v # w => job[v] # j /\ v \in Workers BY <2>2, <1>b
  <2>5. ran[j] \in Seq(Handlers) /\ rest[w] \in Seq(Handlers) BY <2>2, <1>a DEF BusTypeOK
  <2> HIDE DEF j
  <2>6. CASE HandlerReturn(w)
    <3>1. /\ ran' = [ran EXCEPT ![j] = Append(ran[j], Head(rest[w]))]
          /\ rest' = [rest EXCEPT ![w] = Tail(rest[w])] /\ threw' = threw
      BY <2>6, <1>a DEF HandlerReturn, BusTypeOK, j
    <3>2. Head(rest[w]) \in Handlers /\ Tail(rest[w]) \in Seq(Handlers)
      BY <2>2, <2>5, HeadTailProperties
    <3>3. /\ ran'[j] = Append(ran[j], Head(rest[w])) /\ \A i \in Jobs : i # j => ran'[i] = ran[i]
          /\ rest'[w] = Tail(rest[w]) /\ \A v \in Running : v # w => rest'[v] = rest[v]
      BY <3>1, <2>2, <2>4, <1>a DEF BusTypeOK
    <3>4. BusTypeOK'
      <4>1. Append(ran[j], Head(rest[w])) \in Seq(Handlers) BY <3>2, <2>5
      <4> QED BY <4>1, <3>1, <3>2, <2>1, <1>a DEF BusTypeOK
    <3>5. event[j].handlers = ran'[j] \o rest'[w]
      <4>1. Append(ran[j], Head(rest[w])) \o Tail(rest[w]) = ran[j] \o rest[w]
        BY <2>2, <2>5, OneCalled
      <4> QED BY <4>1, <2>3, <3>3
    <3>6. NotBegun' BY <2>1, <2>2, <3>1, <3>3, <1>a, <1>d DEF NotBegun
    <3>7. InProgress'
      <4>1. \A v \in Running : job[v] \in Jobs BY <1>b
      <4> QED BY <4>1, <2>1, <2>2, <2>3, <2>4, <3>1, <3>3, <3>5, <1>a, <1>d, ZenonT(40) DEF InProgress, j
    <3>8. Ended'
      <4>1. done \subseteq Jobs /\ threw \subseteq Jobs BY <1>t, <1>a DEF TypeOK, BusTypeOK
      <4> QED BY <4>1, <2>1, <2>2, <2>3, <3>1, <3>3, <1>a DEF Ended
    <3> QED BY <3>4, <3>6, <3>7, <3>8 DEF BusIInv
  <2>7. CASE HandlerThrow(w)
    <3>1. threw' = threw \cup {j} /\ rest' = [rest EXCEPT ![w] = <<>>] /\ ran' = ran
      BY <2>7 DEF HandlerThrow, j
    <3>2. rest'[w] = <<>> /\ \A v \in Running : v # w => rest'[v] = rest[v]
      BY <3>1, <2>2, <2>4, <1>a, <1>b DEF BusTypeOK
    <3>3. BusTypeOK' BY <3>1, <2>1, <2>2, <1>a DEF BusTypeOK
    <3>4. NotBegun' BY <2>1, <2>2, <3>1, <1>a, <1>d DEF NotBegun
    <3>5. InProgress' BY <2>1, <2>2, <2>4, <3>1, <3>2, <1>a, <1>d DEF InProgress, j
    <3>6. IsPrefix(ran[j], event[j].handlers) /\ Len(ran[j]) < Len(event[j].handlers)
      BY <2>2, <2>3, <2>5, CalledIsPrefix
    <3>7. Ended' BY <2>1, <2>2, <3>1, <3>6, <1>a DEF Ended
    <3> QED BY <3>3, <3>4, <3>5, <3>7 DEF BusIInv
  <2> QED BY <1>7, <2>6, <2>7
<1>8. ASSUME NEW w \in Workers, BusFinish(w) PROVE BusIInv'
  <2>1. /\ Finish(w) /\ UNCHANGED busVars /\ rest[w] = <<>> /\ w \notin inside
        /\ done' = done \cup {job[w]}
    BY <1>8 DEF BusFinish, Finish
  <2>2. /\ Running' = Running \ {w} /\ w \in Running
        /\ \A v \in Running' : job'[v] = job[v]
        /\ job[w] \in Active /\ Active' = Active \ {job[w]}
    BY <2>1, <1>t, FinishActive
  <2>3. job[w] \notin threw => event[job[w]].handlers = ran[job[w]]
    <3>1. job[w] \in Jobs BY <2>2, <1>b
    <3>2. ran[job[w]] \o <<>> = ran[job[w]] BY <3>1, <1>a, ConcatEmptySeq DEF BusTypeOK
    <3> QED BY <3>1, <3>2, <2>1, <2>2, <1>a DEF InProgress
  <2>4. BusTypeOK' BY <2>1, <1>a DEF BusTypeOK, busVars
  <2>5. NotBegun' BY <2>1, <2>2, <1>a DEF NotBegun, busVars
  <2>6. InProgress' BY <2>1, <2>2, <1>a DEF InProgress, busVars
  <2>7. Ended' BY <2>1, <2>3, <1>a DEF Ended, busVars
  <2> QED BY <2>4, <2>5, <2>6, <2>7 DEF BusIInv
<1>9. CASE (StopClear \/ StopStep) /\ UNCHANGED busVars
  <2>1. UNCHANGED <<wpc, job, done>> BY <1>9 DEF StopClear, StopStep, StopNotify, StopJoin
  <2> QED BY <1>9, <2>1, <1>d, BusIInvKept
<1>10. CASE UNCHANGED allVars
  <2>1. UNCHANGED <<wpc, job, done>> /\ UNCHANGED busVars BY <1>10 DEF allVars, vars
  <2> QED BY <2>1, <1>d, BusIInvKept
<1> QED BY <1>1, <1>2, <1>3, <1>4, <1>5, <1>6, <1>7, <1>8, <1>9, <1>10 DEF BusNext, BusWorkerStep

LEMMA BusIInvDelivers == IInv /\ BusIInv => DeliversSnapshot
<1> SUFFICES ASSUME IInv, BusIInv, NEW j \in 1..(next - 1)
             PROVE  /\ IsPrefix(ran[j], event[j].handlers)
                    /\ j \in done /\ j \notin threw => ran[j] = event[j].handlers
                    /\ j \in Held \cup Elements(tasks) \cup dropped => ran[j] = <<>>
                    /\ j \in threw => Len(ran[j]) < Len(event[j].handlers)
  BY DEF DeliversSnapshot
<1>a. BusTypeOK /\ NotBegun /\ InProgress /\ Ended BY DEF BusIInv
<1>b. j \in Jobs BY ThreadPoolAssumption DEF IInv, TypeOK, Jobs
<1>c. ran[j] \in Seq(Handlers) /\ event[j].handlers \in Seq(Handlers) BY <1>a, <1>b DEF BusTypeOK
<1>1. j \in done /\ j \notin threw => ran[j] = event[j].handlers BY <1>a DEF Ended
<1>2. j \in threw => IsPrefix(ran[j], event[j].handlers) /\ Len(ran[j]) < Len(event[j].handlers)
  BY <1>a DEF Ended
<1>3. j \in Held \cup Elements(tasks) \cup dropped => ran[j] = <<>>
  <2>1. j \in Held \cup Elements(tasks) \cup dropped => j \notin Active \cup done
    BY DEF IInv, Partition, Apart
  <2> QED BY <2>1, <1>a, <1>b DEF NotBegun
<1>4. IsPrefix(ran[j], event[j].handlers)
  <2>1. CASE j \in threw BY <2>1, <1>2
  <2>2. CASE j \notin Active \cup done
    <3>1. ran[j] = <<>> BY <2>2, <1>a, <1>b DEF NotBegun
    <3>2. event[j].handlers = ran[j] \o event[j].handlers BY <3>1, <1>c, ConcatEmptySeq
    <3> QED BY <3>2, <1>c, CalledIsPrefix
  <2>3. CASE j \in done /\ j \notin threw
    <3>1. event[j].handlers = ran[j] \o <<>> BY <2>3, <1>1, <1>c, ConcatEmptySeq
    <3>2. <<>> \in Seq(Handlers) OBVIOUS
    <3> QED BY <3>1, <3>2, <1>c, CalledIsPrefix
  <2>4. CASE j \in Active /\ j \notin threw
    <3>1. PICK w \in Running : job[w] = j BY <2>4 DEF Active
    <3>2. w \in Workers BY DEF Running
    <3>3. event[j].handlers = ran[j] \o rest[w] /\ rest[w] \in Seq(Handlers)
      BY <3>1, <3>2, <2>4, <1>a, <1>b DEF InProgress, BusTypeOK
    <3> QED BY <3>3, <1>c, CalledIsPrefix
  <2> QED BY <2>1, <2>2, <2>3, <2>4
<1> QED BY <1>1, <1>2, <1>3, <1>4

(* Every event is delivered to the handlers EventBus::publish() captured,   *)
(* in the order of their subscription and each once, whatever is            *)
(* subscribed, published or thrown meanwhile and however many workers run   *)
(* (event_bus.h:46-52).                                                     *)
THEOREM BusDeliversSnapshot == BusSpec => []DeliversSnapshot
<1>1. BusInit => BusIInv BY BusInitIInv
<1>2. IInv /\ BusIInv /\ [BusNext]_allVars => BusIInv' BY BusIInvStep
<1>3. BusSpec => []IInv BY BusImplementsPool, Invariance, PTL
<1>4. BusSpec => []BusIInv BY <1>1, <1>2, <1>3, PTL DEF BusSpec
<1> QED BY <1>3, <1>4, BusIInvDelivers, PTL
=============================================================================
