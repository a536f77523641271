-------------------------- MODULE ThreadPoolProofs --------------------------
(***************************************************************************)
(* Proofs about the pool, for any number of workers, of other threads and  *)
(* of jobs.                                                                *)
(***************************************************************************)
EXTENDS ThreadPool, FiniteSetTheorems, TLAPS

USE DEF PushBack, Accepts, WakesOne, TakeFront, NotifiesAll, JoinsAll

Distinct(s) == \A m, n \in 1..Len(s) : s[m] = s[n] => m = n

\* What a push and a pop do to the jobs of a queue.
LEMMA PushedElements ==
    ASSUME NEW S, NEW s \in Seq(S), NEW j \in S
    PROVE  /\ Elements(Append(s, j)) = Elements(s) \cup {j}
           /\ Distinct(s) /\ j \notin Elements(s) => Distinct(Append(s, j))
<1>1. /\ Len(Append(s, j)) = Len(s) + 1 /\ Len(s) \in Nat
      /\ \A n \in 1..(Len(s) + 1) : Append(s, j)[n] = IF n = Len(s) + 1 THEN j ELSE s[n]
  OBVIOUS
<1>2. Elements(Append(s, j)) = Elements(s) \cup {j}
  <2>1. \A x : x \in Elements(Append(s, j)) => x \in Elements(s) \cup {j}
    BY <1>1 DEF Elements
  <2>2. \A x : x \in Elements(s) => x \in Elements(Append(s, j))
    BY <1>1 DEF Elements
  <2>3. j \in Elements(Append(s, j))
    <3>1. Append(s, j)[Len(s) + 1] = j /\ Len(s) + 1 \in 1..Len(Append(s, j)) BY <1>1
    <3> QED BY <3>1 DEF Elements
  <2> QED BY <2>1, <2>2, <2>3
<1>3. ASSUME Distinct(s), j \notin Elements(s) PROVE Distinct(Append(s, j))
  BY <1>1, <1>3 DEF Distinct, Elements
<1> QED BY <1>2, <1>3

LEMMA PoppedElements ==
    ASSUME NEW S, NEW s \in Seq(S), s # <<>>, Distinct(s)
    PROVE  /\ Head(s) \in S /\ Tail(s) \in Seq(S)
           /\ Head(s) \in Elements(s)
           /\ Elements(Tail(s)) = Elements(s) \ {Head(s)}
           /\ Distinct(Tail(s))
<1>1. /\ Len(s) \in Nat /\ Len(s) >= 1 /\ Len(Tail(s)) = Len(s) - 1
      /\ Head(s) = s[1] /\ Head(s) \in S /\ Tail(s) \in Seq(S)
      /\ \A n \in 1..(Len(s) - 1) : Tail(s)[n] = s[n + 1]
  OBVIOUS
<1>2. Head(s) \in Elements(s) BY <1>1 DEF Elements
<1>3. \A x : x \in Elements(Tail(s)) => x \in Elements(s) /\ x # Head(s)
  <2> SUFFICES ASSUME NEW n \in 1..Len(Tail(s))
               PROVE  Tail(s)[n] \in Elements(s) /\ Tail(s)[n] # Head(s)
    BY DEF Elements
  <2>1. n + 1 \in 1..Len(s) /\ n + 1 # 1 /\ Tail(s)[n] = s[n + 1] /\ 1 \in 1..Len(s) BY <1>1
  <2> QED BY <1>1, <2>1 DEF Elements, Distinct
<1>4. \A x : x \in Elements(s) /\ x # Head(s) => x \in Elements(Tail(s))
  <2> SUFFICES ASSUME NEW n \in 1..Len(s), s[n] # Head(s) PROVE s[n] \in Elements(Tail(s))
    BY DEF Elements
  <2>1. n - 1 \in 1..Len(Tail(s)) /\ Tail(s)[n - 1] = s[n] BY <1>1
  <2> QED BY <2>1 DEF Elements
<1>5. Distinct(Tail(s)) BY <1>1 DEF Distinct
<1> QED BY <1>1, <1>2, <1>3, <1>4, <1>5

(***************************************************************************)
(* The parts of the inductive invariant.                                   *)
(***************************************************************************)

\* The five places of EachJobOnce, two by two, in a form the provers take.
Apart(P, Q, A, D, X) ==
    /\ P \cap Q = {} /\ P \cap A = {} /\ P \cap D = {} /\ P \cap X = {}
    /\ Q \cap A = {} /\ Q \cap D = {} /\ Q \cap X = {}
    /\ A \cap D = {} /\ A \cap X = {} /\ D \cap X = {}

Partition ==
    /\ Held \cup Elements(tasks) \cup Active \cup done \cup dropped = 1..(next - 1)
    /\ Apart(Held, Elements(tasks), Active, done, dropped)

\* No two threads and no two workers have the same job.
OneHolder ==
    /\ \A t, u \in Threads : epc[t] = "push" /\ epc[u] = "push" /\ ejob[t] = ejob[u] => t = u
    /\ \A v, w \in Running : job[v] = job[w] => v = w
    /\ Distinct(tasks)

\* The flag and stop() go together, and a worker calls enqueue() from a job.
StopInv ==
    /\ running = (spc = "idle")
    /\ ~running => tasks = <<>>
    /\ spc = "stopped" => \A w \in Workers : wpc[w] = "ended"
    /\ \A w \in Workers : epc[w] # "idle" => wpc[w] = "run"

IInv == TypeOK /\ Partition /\ OneHolder /\ StopInv

LEMMA PartitionIsEachJobOnce == Partition /\ OneHolder <=> EachJobOnce
<1> DEFINE places == <<Held, Elements(tasks), Active, done, dropped>>
<1>1. (\A m, n \in 1..5 : m < n => places[m] \cap places[n] = {})
      <=> Apart(Held, Elements(tasks), Active, done, dropped)
  <2>1. /\ places[1] = Held /\ places[2] = Elements(tasks) /\ places[3] = Active
        /\ places[4] = done /\ places[5] = dropped
    OBVIOUS
  <2> HIDE DEF places
  <2>2. (\A m, n \in 1..5 : m < n => places[m] \cap places[n] = {})
        <=> Apart(places[1], places[2], places[3], places[4], places[5])
    BY DEF Apart
  <2> QED BY <2>1, <2>2
<1> QED BY <1>1 DEF Partition, OneHolder, EachJobOnce, Distinct

LEMMA InitIInv == Init => IInv
<1> SUFFICES ASSUME Init PROVE IInv OBVIOUS
<1> USE ThreadPoolAssumption DEF Init
<1>1. TypeOK BY DEF TypeOK, NoJob
<1>2. Held = {} /\ Active = {} /\ Elements(tasks) = {} BY DEF Held, Active, Elements, Running
<1>3. Partition BY <1>2 DEF Partition, Apart
<1>4. OneHolder BY DEF OneHolder, Distinct, Running
<1>5. StopInv BY DEF StopInv, Threads
<1> QED BY <1>1, <1>3, <1>4, <1>5 DEF IInv

-----------------------------------------------------------------------------
(* How each operation moves jobs between the places. *)

LEMMA ActiveUnchanged ==
    ASSUME UNCHANGED <<wpc, job>>
    PROVE  Active' = Active /\ Running' = Running
BY DEF Active, Running

LEMMA HeldUnchanged == ASSUME UNCHANGED <<epc, ejob>> PROVE Held' = Held
BY DEF Held

LEMMA ElementsUnchanged ==
    ASSUME tasks' = tasks
    PROVE  Elements(tasks)' = Elements(tasks) /\ (Distinct(tasks) => Distinct(tasks)')
BY DEF Elements, Distinct

LEMMA EnqueueHeld ==
    ASSUME TypeOK, NEW t \in Threads, Enqueue(t)
    PROVE  Held' = Held \cup {next}
<1>1. /\ epc \in [Threads -> {"idle", "push", "notify"}]
      /\ ejob \in [Threads -> Jobs \cup {NoJob}]
      /\ epc' = [epc EXCEPT ![t] = "push"] /\ ejob' = [ejob EXCEPT ![t] = next]
      /\ epc[t] = "idle"
  BY DEF TypeOK, Enqueue
<1>2. /\ epc'[t] = "push" /\ ejob'[t] = next
      /\ \A u \in Threads \ {t} : epc'[u] = epc[u] /\ ejob'[u] = ejob[u]
  BY <1>1
<1>3. Held' = {ejob'[u] : u \in {v \in Threads : epc'[v] = "push"}} BY DEF Held
<1> QED BY <1>1, <1>2, <1>3 DEF Held

\* Both ways out of the critical section of enqueue() hand the job on.
LEMMA LeaveHeld ==
    ASSUME TypeOK, OneHolder, NEW t \in Threads, NEW p \in {"idle", "notify"},
           epc[t] = "push", epc' = [epc EXCEPT ![t] = p], ejob' = [ejob EXCEPT ![t] = NoJob]
    PROVE  ejob[t] \in Held /\ Held' = Held \ {ejob[t]}
<1>1. /\ epc \in [Threads -> {"idle", "push", "notify"}]
      /\ ejob \in [Threads -> Jobs \cup {NoJob}]
  BY DEF TypeOK
<1>2. /\ epc'[t] # "push"
      /\ \A u \in Threads \ {t} : epc'[u] = epc[u] /\ ejob'[u] = ejob[u]
  BY <1>1
<1>3. \A u \in Threads \ {t} : epc[u] = "push" => ejob[u] # ejob[t] BY DEF OneHolder
<1>4. Held' = {ejob'[u] : u \in {v \in Threads : epc'[v] = "push"}} BY DEF Held
<1> QED BY <1>2, <1>3, <1>4 DEF Held

LEMMA NotifyHeld ==
    ASSUME TypeOK, NEW t \in Threads, EnqueueNotify(t)
    PROVE  Held' = Held
<1>1. /\ epc \in [Threads -> {"idle", "push", "notify"}]
      /\ epc[t] = "notify" /\ epc' = [epc EXCEPT ![t] = "idle"] /\ ejob' = ejob
  BY DEF TypeOK, EnqueueNotify
<1>2. {v \in Threads : epc'[v] = "push"} = {v \in Threads : epc[v] = "push"} BY <1>1
<1>3. Held' = {ejob'[u] : u \in {v \in Threads : epc'[v] = "push"}} BY DEF Held
<1> QED BY <1>1, <1>2, <1>3 DEF Held

\* A worker that neither takes nor finishes a job leaves Active alone.
LEMMA IdleWorkerActive ==
    ASSUME TypeOK, NEW w \in Workers, NEW p \in {"check", "wait", "ended"},
           wpc[w] # "run", wpc' = [wpc EXCEPT ![w] = p], job' = job
    PROVE  Active' = Active /\ Running' = Running
<1>1. Running' = Running BY DEF Running, TypeOK
<1>2. Active' = {job'[v] : v \in Running'} BY DEF Active
<1> QED BY <1>1, <1>2 DEF Active

LEMMA TakeActive ==
    ASSUME TypeOK, NEW w \in Workers, Take(w)
    PROVE  /\ Running' = Running \cup {w} /\ w \notin Running
           /\ job'[w] = Head(tasks) /\ \A v \in Running : job'[v] = job[v]
           /\ Active' = Active \cup {Head(tasks)}
<1>1. /\ wpc \in [Workers -> {"check", "wait", "run", "ended"}]
      /\ job \in [Workers -> Jobs \cup {NoJob}]
      /\ wpc[w] = "check" /\ wpc' = [wpc EXCEPT ![w] = "run"]
      /\ job' = [job EXCEPT ![w] = Head(tasks)]
  BY DEF TypeOK, Take
<1>2. Running' = Running \cup {w} /\ w \notin Running BY <1>1 DEF Running
<1>3. job'[w] = Head(tasks) /\ \A v \in Running : job'[v] = job[v] BY <1>1, <1>2 DEF Running
<1>4. Active' = {job'[v] : v \in Running'} BY DEF Active
<1> QED BY <1>2, <1>3, <1>4 DEF Active

LEMMA FinishActive ==
    ASSUME TypeOK, OneHolder, NEW w \in Workers, Finish(w)
    PROVE  /\ Running' = Running \ {w} /\ w \in Running
           /\ \A v \in Running' : job'[v] = job[v]
           /\ job[w] \in Active /\ Active' = Active \ {job[w]}
<1>1. /\ wpc \in [Workers -> {"check", "wait", "run", "ended"}]
      /\ job \in [Workers -> Jobs \cup {NoJob}]
      /\ wpc[w] = "run" /\ wpc' = [wpc EXCEPT ![w] = "check"]
      /\ job' = [job EXCEPT ![w] = NoJob]
  BY DEF TypeOK, Finish
<1>2. Running' = Running \ {w} /\ w \in Running BY <1>1 DEF Running
<1>3. \A v \in Running' : job'[v] = job[v] BY <1>1, <1>2 DEF Running
<1>4. Active' = {job'[v] : v \in Running'} BY DEF Active
<1>5. \A v \in Running' : job[v] # job[w] BY <1>2 DEF OneHolder
<1> QED BY <1>2, <1>3, <1>4, <1>5 DEF Active

-----------------------------------------------------------------------------
(* Every step preserves the invariant. *)

LEMMA TypeStep == ASSUME IInv, [Next]_vars PROVE TypeOK'
<1> USE ThreadPoolAssumption DEF TypeOK
<1>a. TypeOK BY DEF IInv
<1>b. Held \subseteq Jobs /\ Active \subseteq Jobs /\ Elements(tasks) \subseteq Jobs
  <2>1. 1..(next - 1) \subseteq Jobs BY <1>a DEF Jobs
  <2> QED BY <2>1 DEF IInv, Partition
<1>1. ASSUME NEW t \in Threads, Enqueue(t) PROVE TypeOK'
  <2>1. next \in Jobs /\ next + 1 \in 1..(MaxJobs + 1) BY <1>1, <1>a DEF Enqueue, Jobs
  <2> QED BY <1>1, <1>a, <2>1 DEF Enqueue
<1>2. ASSUME NEW t \in Threads, EnqueuePush(t) PROVE TypeOK'
  <2>1. ejob[t] \in Jobs BY <1>2, <1>b DEF EnqueuePush, Held
  <2>2. Append(tasks, ejob[t]) \in Seq(Jobs) BY <1>a, <2>1
  <2> QED BY <1>2, <1>a, <2>2 DEF EnqueuePush
<1>3. ASSUME NEW t \in Threads, EnqueueRefused(t) PROVE TypeOK'
  <2>1. ejob[t] \in Jobs BY <1>3, <1>b DEF EnqueueRefused, Held
  <2> QED BY <1>3, <1>a, <2>1 DEF EnqueueRefused
<1>4. ASSUME NEW t \in Threads, EnqueueNotify(t) PROVE TypeOK'
  BY <1>4, <1>a DEF EnqueueNotify, Waiting
<1>5. ASSUME NEW w \in Workers, Sleep(w) PROVE TypeOK' BY <1>5, <1>a DEF Sleep
<1>6. ASSUME NEW w \in Workers, Wake(w) PROVE TypeOK' BY <1>6, <1>a DEF Wake
<1>7. ASSUME NEW w \in Workers, Exit(w) PROVE TypeOK' BY <1>7, <1>a DEF Exit
<1>8. ASSUME NEW w \in Workers, Take(w) PROVE TypeOK'
  <2>1. Head(tasks) \in Jobs /\ Tail(tasks) \in Seq(Jobs) BY <1>8, <1>a DEF Take
  <2> QED BY <1>8, <1>a, <2>1 DEF Take
<1>9. ASSUME NEW w \in Workers, Finish(w) PROVE TypeOK'
  <2>1. job[w] \in Jobs BY <1>9, <1>b DEF Finish, Active, Running
  <2> QED BY <1>9, <1>a, <2>1 DEF Finish
<1>10. CASE StopClear
  <2>1. running' \in BOOLEAN BY <1>10, Zenon DEF StopClear
  <2>2. tasks' \in Seq(Jobs) /\ spc' \in {"idle", "notify", "join", "stopped"}
    BY <1>10 DEF StopClear
  <2>3. dropped' \subseteq Jobs BY <1>10, <1>a, <1>b DEF StopClear
  <2> QED BY <1>10, <1>a, <2>1, <2>2, <2>3 DEF StopClear
<1>11. CASE StopNotify BY <1>11, <1>a DEF StopNotify, Waiting
<1>12. CASE StopJoin BY <1>12, <1>a DEF StopJoin
<1>13. CASE UNCHANGED vars BY <1>13, <1>a DEF vars
<1> QED
  BY <1>1, <1>2, <1>3, <1>4, <1>5, <1>6, <1>7, <1>8, <1>9, <1>10, <1>11, <1>12, <1>13
  DEF Next, EnqueueStep, WorkerStep, StopStep, WakeNotified, WakeSpurious

\* What a step does to the places, as one of five moves of a job.
Move ==
    \/ /\ Held' = Held \cup {next} /\ next' = next + 1
       /\ UNCHANGED <<tasks, Active, done, dropped>>
    \/ \E t \in Threads :
         /\ epc[t] = "push" /\ ejob[t] \in Held /\ Held' = Held \ {ejob[t]}
         /\ \/ tasks' = Append(tasks, ejob[t]) /\ dropped' = dropped /\ running
            \/ tasks' = tasks /\ dropped' = dropped \cup {ejob[t]}
         /\ UNCHANGED <<Active, done, next>>
    \/ /\ tasks # <<>> /\ tasks' = Tail(tasks) /\ Active' = Active \cup {Head(tasks)}
       /\ UNCHANGED <<Held, done, dropped, next>>
    \/ \E w \in Workers :
         /\ job[w] \in Active /\ Active' = Active \ {job[w]} /\ done' = done \cup {job[w]}
         /\ UNCHANGED <<Held, tasks, dropped, next>>
    \/ /\ tasks' = <<>> /\ dropped' = dropped \cup Elements(tasks) /\ ~running'
       /\ UNCHANGED <<Held, Active, done, next>>
    \/ UNCHANGED <<Held, tasks, Active, done, dropped, next>>

LEMMA StepIsMove == ASSUME IInv, [Next]_vars PROVE Move
<1>a. TypeOK /\ OneHolder BY DEF IInv
<1>1. ASSUME NEW t \in Threads, Enqueue(t) PROVE Move
  BY <1>1, <1>a, EnqueueHeld, ActiveUnchanged DEF Enqueue, Move
<1>2. ASSUME NEW t \in Threads, EnqueuePush(t) PROVE Move
  <2>1. ejob[t] \in Held /\ Held' = Held \ {ejob[t]}
    BY <1>2, <1>a, LeaveHeld DEF EnqueuePush
  <2> QED BY <1>2, <2>1, ActiveUnchanged DEF EnqueuePush, Move
<1>3. ASSUME NEW t \in Threads, EnqueueRefused(t) PROVE Move
  <2>1. ejob[t] \in Held /\ Held' = Held \ {ejob[t]}
    BY <1>3, <1>a, LeaveHeld DEF EnqueueRefused
  <2> QED BY <1>3, <2>1, ActiveUnchanged DEF EnqueueRefused, Move
<1>4. ASSUME NEW t \in Threads, EnqueueNotify(t) PROVE Move
  BY <1>4, <1>a, NotifyHeld, ActiveUnchanged DEF EnqueueNotify, Move
<1>5. ASSUME NEW w \in Workers, Sleep(w) PROVE Move
  <2>1. Active' = Active BY <1>5, <1>a, IdleWorkerActive DEF Sleep
  <2> QED BY <1>5, <2>1, HeldUnchanged DEF Sleep, Move
<1>6. ASSUME NEW w \in Workers, Wake(w) PROVE Move
  <2>1. Active' = Active BY <1>6, <1>a, IdleWorkerActive DEF Wake
  <2> QED BY <1>6, <2>1, HeldUnchanged DEF Wake, Move
<1>7. ASSUME NEW w \in Workers, Exit(w) PROVE Move
  <2>1. Active' = Active BY <1>7, <1>a, IdleWorkerActive DEF Exit
  <2> QED BY <1>7, <2>1, HeldUnchanged DEF Exit, Move
<1>8. ASSUME NEW w \in Workers, Take(w) PROVE Move
  BY <1>8, <1>a, TakeActive, HeldUnchanged DEF Take, Move
<1>9. ASSUME NEW w \in Workers, Finish(w) PROVE Move
  BY <1>9, <1>a, FinishActive, HeldUnchanged DEF Finish, Move
<1>10. CASE StopClear
  BY <1>10, ActiveUnchanged, HeldUnchanged DEF StopClear, Move
<1>11. CASE StopNotify BY <1>11, ActiveUnchanged, HeldUnchanged DEF StopNotify, Move
<1>12. CASE StopJoin BY <1>12, ActiveUnchanged, HeldUnchanged DEF StopJoin, Move
<1>13. CASE UNCHANGED vars BY <1>13, ActiveUnchanged, HeldUnchanged DEF vars, Move
<1> QED
  BY <1>1, <1>2, <1>3, <1>4, <1>5, <1>6, <1>7, <1>8, <1>9, <1>10, <1>11, <1>12, <1>13
  DEF Next, EnqueueStep, WorkerStep, StopStep, WakeNotified, WakeSpurious

LEMMA PartitionStep == ASSUME IInv, Move PROVE Partition' /\ Distinct(tasks)'
<1>a. /\ tasks \in Seq(Jobs) /\ next \in Nat /\ next >= 1
      /\ Held \cup Elements(tasks) \cup Active \cup done \cup dropped = 1..(next - 1)
      /\ Apart(Held, Elements(tasks), Active, done, dropped)
      /\ Distinct(tasks)
      /\ Held \subseteq Jobs
  BY ThreadPoolAssumption DEF IInv, Partition, OneHolder, TypeOK, Jobs
<1>b. tasks' = tasks => Elements(tasks)' = Elements(tasks) /\ Distinct(tasks)'
  BY <1>a, ElementsUnchanged
<1>0. Partition' = (/\ Held' \cup Elements(tasks)' \cup Active' \cup done' \cup dropped' = 1..(next' - 1)
                    /\ Apart(Held', Elements(tasks)', Active', done', dropped'))
  BY DEF Partition
<1>1. CASE /\ Held' = Held \cup {next} /\ next' = next + 1
           /\ UNCHANGED <<tasks, Active, done, dropped>>
  <2>1. next \notin 1..(next - 1) /\ 1..(next' - 1) = 1..(next - 1) \cup {next} BY <1>1, <1>a
  <2> QED BY <1>0, <1>1, <1>a, <1>b, <2>1 DEF Apart
<1>2. ASSUME NEW t \in Threads, ejob[t] \in Held, Held' = Held \ {ejob[t]},
             tasks' = Append(tasks, ejob[t]), dropped' = dropped,
             UNCHANGED <<Active, done, next>>
      PROVE  Partition' /\ Distinct(tasks)'
  <2>1. ejob[t] \in Jobs /\ ejob[t] \notin Elements(tasks) BY <1>2, <1>a DEF Apart
  <2>2. Elements(tasks)' = Elements(tasks')  /\ Distinct(tasks)' = Distinct(tasks')
    BY DEF Elements, Distinct
  <2>3. Elements(tasks)' = Elements(tasks) \cup {ejob[t]} /\ Distinct(tasks)'
    BY <1>2, <1>a, <2>1, <2>2, PushedElements
  <2> QED BY <1>0, <1>2, <1>a, <2>3 DEF Apart
<1>3. ASSUME NEW t \in Threads, ejob[t] \in Held, Held' = Held \ {ejob[t]},
             tasks' = tasks, dropped' = dropped \cup {ejob[t]},
             UNCHANGED <<Active, done, next>>
      PROVE  Partition' /\ Distinct(tasks)'
  BY <1>0, <1>3, <1>a, <1>b DEF Apart
<1>4. CASE /\ tasks # <<>> /\ tasks' = Tail(tasks) /\ Active' = Active \cup {Head(tasks)}
           /\ UNCHANGED <<Held, done, dropped, next>>
  <2>1. Elements(tasks)' = Elements(tasks')  /\ Distinct(tasks)' = Distinct(tasks')
    BY DEF Elements, Distinct
  <2>2. /\ Head(tasks) \in Elements(tasks) /\ Distinct(tasks)'
        /\ Elements(tasks)' = Elements(tasks) \ {Head(tasks)}
    BY <1>4, <1>a, <2>1, PoppedElements
  <2> QED BY <1>0, <1>4, <1>a, <2>2 DEF Apart
<1>5. ASSUME NEW w \in Workers, job[w] \in Active, Active' = Active \ {job[w]},
             done' = done \cup {job[w]}, UNCHANGED <<Held, tasks, dropped, next>>
      PROVE  Partition' /\ Distinct(tasks)'
  BY <1>0, <1>5, <1>a, <1>b DEF Apart
<1>6. CASE /\ tasks' = <<>> /\ dropped' = dropped \cup Elements(tasks)
           /\ UNCHANGED <<Held, Active, done, next>>
  <2>1. Elements(tasks)' = {} /\ Distinct(tasks)' BY <1>6 DEF Elements, Distinct
  <2> QED BY <1>0, <1>6, <1>a, <2>1 DEF Apart
<1>7. CASE UNCHANGED <<Held, tasks, Active, done, dropped, next>>
  BY <1>0, <1>7, <1>a, <1>b DEF Apart
<1> QED BY <1>1, <1>2, <1>3, <1>4, <1>5, <1>6, <1>7 DEF Move

\* A number that enqueue() has just given out is held by nobody else, and the
\* job at the head of the queue is run by nobody.
LEMMA HolderStep ==
    ASSUME IInv, [Next]_vars
    PROVE  /\ \A t, u \in Threads :
                 epc'[t] = "push" /\ epc'[u] = "push" /\ ejob'[t] = ejob'[u] => t = u
           /\ \A v, w \in Running' : job'[v] = job'[w] => v = w
<1> DEFINE G1 == \A t, u \in Threads :
                    epc'[t] = "push" /\ epc'[u] = "push" /\ ejob'[t] = ejob'[u] => t = u
           G2 == \A v, w \in Running' : job'[v] = job'[w] => v = w
<1>a. TypeOK /\ OneHolder /\ Partition BY DEF IInv
<1>b. /\ \A t, u \in Threads : epc[t] = "push" /\ epc[u] = "push" /\ ejob[t] = ejob[u] => t = u
      /\ \A v, w \in Running : job[v] = job[w] => v = w
  BY <1>a DEF OneHolder
<1>c. /\ epc \in [Threads -> {"idle", "push", "notify"}]
      /\ ejob \in [Threads -> Jobs \cup {NoJob}]
  BY <1>a DEF TypeOK
<1>1. ASSUME NEW t \in Threads, Enqueue(t) PROVE G1
  <2>1. next \notin Held BY <1>a, ThreadPoolAssumption DEF Partition, TypeOK
  <2>2. \A u \in Threads : epc[u] = "push" => ejob[u] # next BY <2>1 DEF Held
  <2>3. /\ epc'[t] = "push" /\ ejob'[t] = next /\ epc[t] = "idle"
        /\ \A u \in Threads \ {t} : epc'[u] = epc[u] /\ ejob'[u] = ejob[u]
    BY <1>1, <1>c DEF Enqueue
  <2> QED BY <1>b, <2>2, <2>3
<1>2. ASSUME NEW t \in Threads, EnqueueStep(t) PROVE G1
  <2>1. /\ epc'[t] # "push"
        /\ \A u \in Threads \ {t} : epc'[u] = epc[u] /\ ejob'[u] = ejob[u]
    BY <1>2, <1>c DEF EnqueueStep, EnqueuePush, EnqueueRefused, EnqueueNotify
  <2> QED BY <1>b, <2>1
<1>3. ASSUME UNCHANGED <<epc, ejob>> PROVE G1 BY <1>b, <1>3
<1>4. ASSUME NEW w \in Workers, Take(w) PROVE G2
  <2>1. Head(tasks) \in Elements(tasks)
    BY <1>4, <1>a, PoppedElements DEF Take, TypeOK, OneHolder
  <2>2. \A v \in Running : job[v] # Head(tasks)
    BY <2>1, <1>a DEF Partition, Apart, Active
  <2> QED BY <1>4, <1>a, <1>b, <2>2, TakeActive
<1>5. ASSUME NEW w \in Workers, Finish(w) PROVE G2
  BY <1>5, <1>a, <1>b, FinishActive
<1>6. ASSUME Running' = Running, job' = job PROVE G2 BY <1>6, <1>b
<1>7. ASSUME NEW w \in Workers, Sleep(w) \/ Exit(w) \/ Wake(w)
      PROVE  G2 /\ UNCHANGED <<epc, ejob>>
  <2>1. Running' = Running /\ job' = job
    BY <1>7, <1>a, IdleWorkerActive DEF Sleep, Exit, Wake
  <2> QED BY <1>6, <1>7, <2>1 DEF Sleep, Exit, Wake
<1>8. ASSUME NEW t \in Threads, Enqueue(t) \/ EnqueueStep(t) PROVE G1 /\ G2
  <2>1. wpc' = wpc /\ job' = job
    BY <1>8 DEF Enqueue, EnqueueStep, EnqueuePush, EnqueueRefused, EnqueueNotify
  <2> QED BY <1>1, <1>2, <1>6, <1>8, <2>1, ActiveUnchanged
<1>9. ASSUME NEW w \in Workers, WorkerStep(w) \/ WakeSpurious(w) PROVE G1 /\ G2
  <2>1. UNCHANGED <<epc, ejob>>
    BY <1>9 DEF WorkerStep, WakeSpurious, WakeNotified, Sleep, Wake, Exit, Take, Finish
  <2> QED BY <1>3, <1>4, <1>5, <1>7, <1>9, <2>1 DEF WorkerStep, WakeSpurious, WakeNotified
<1>10. CASE StopClear \/ StopStep \/ UNCHANGED vars
  <2>1. UNCHANGED <<epc, ejob, wpc, job>>
    BY <1>10 DEF StopClear, StopStep, StopNotify, StopJoin, vars
  <2> QED BY <1>3, <1>6, <2>1, ActiveUnchanged
<1> QED BY <1>8, <1>9, <1>10 DEF Next

LEMMA StopStepInv == ASSUME IInv, [Next]_vars PROVE StopInv'
<1>a. TypeOK /\ StopInv BY DEF IInv
<1>b. /\ epc \in [Threads -> {"idle", "push", "notify"}]
      /\ wpc \in [Workers -> {"check", "wait", "run", "ended"}] /\ Workers \subseteq Threads
  BY <1>a DEF TypeOK, Threads
<1> DEFINE G == \A w \in Workers : epc'[w] # "idle" => wpc'[w] = "run"
<1>1. running' = (spc' = "idle")
  <2>1. CASE StopClear BY <2>1, Zenon DEF StopClear
  <2>2. CASE StopStep
    <3>1. running' = running /\ spc # "idle" /\ spc' # "idle"
      BY <2>2 DEF StopStep, StopNotify, StopJoin
    <3> QED BY <1>a, <3>1, Zenon DEF StopInv
  <2>3. CASE UNCHANGED <<running, spc>> BY <2>3, <1>a, Zenon DEF StopInv
  <2>4. StopClear \/ StopStep \/ UNCHANGED <<running, spc>>
    BY DEF Next, EnqueueStep, WorkerStep, WakeNotified, WakeSpurious, Enqueue, EnqueuePush,
           EnqueueRefused, EnqueueNotify, Sleep, Wake, Exit, Take, Finish, vars
  <2> QED BY <2>1, <2>2, <2>3, <2>4
<1>2. ~running' => tasks' = <<>>
  <2>1. CASE tasks' = <<>> BY <2>1
  <2>2. CASE UNCHANGED <<running, tasks>> BY <2>2, <1>a, Zenon DEF StopInv
  <2>3. ASSUME NEW t \in Threads, EnqueuePush(t) PROVE running' BY <2>3, Zenon DEF EnqueuePush
  <2>4. ASSUME NEW w \in Workers, Take(w) PROVE running'
    <3>1. tasks # <<>> /\ running' = running BY <2>4 DEF Take
    <3> QED BY <3>1, <1>a, Zenon DEF StopInv
  <2>5. \/ tasks' = <<>> \/ UNCHANGED <<running, tasks>>
        \/ \E t \in Threads : EnqueuePush(t)
        \/ \E w \in Workers : Take(w)
    BY DEF Next, EnqueueStep, WorkerStep, WakeNotified, WakeSpurious, Enqueue,
           EnqueueRefused, EnqueueNotify, Sleep, Wake, Exit, Finish, StopClear, StopStep,
           StopNotify, StopJoin, vars
  <2> QED BY <2>1, <2>2, <2>3, <2>4, <2>5
<1>3. spc' = "stopped" => \A w \in Workers : wpc'[w] = "ended"
  <2>1. CASE StopJoin BY <2>1 DEF StopJoin
  <2>2. CASE ~StopJoin
    <3>1. spc' = "stopped" => spc = "stopped"
      BY <2>2 DEF Next, EnqueueStep, WorkerStep, WakeNotified, WakeSpurious, Enqueue, EnqueuePush,
           EnqueueRefused, EnqueueNotify, Sleep, Wake, Exit, Take, Finish, StopClear, StopStep,
           StopNotify, vars
    <3>2. \A w \in Workers : wpc[w] = "ended" => wpc'[w] = "ended"
      BY <1>b DEF Next, EnqueueStep, WorkerStep, WakeNotified, WakeSpurious, Enqueue, EnqueuePush,
           EnqueueRefused, EnqueueNotify, Sleep, Wake, Exit, Take, Finish, StopClear, StopStep,
           StopNotify, StopJoin, vars
    <3> QED BY <1>a, <3>1, <3>2 DEF StopInv
  <2> QED BY <2>1, <2>2
<1>4. G
  <2>a. \A w \in Workers : epc[w] # "idle" => wpc[w] = "run" BY <1>a DEF StopInv
  <2>1. ASSUME NEW t \in Threads, Enqueue(t) PROVE G
    BY <2>1, <2>a, <1>b DEF Enqueue
  <2>2. ASSUME NEW t \in Threads, EnqueueStep(t) PROVE G
    BY <2>2, <2>a, <1>b DEF EnqueueStep, EnqueuePush, EnqueueRefused, EnqueueNotify
  <2>3. ASSUME NEW v \in Workers, WorkerStep(v) \/ WakeSpurious(v) PROVE G
    BY <2>3, <2>a, <1>b DEF WorkerStep, WakeNotified, WakeSpurious, Sleep, Wake, Exit, Take, Finish
  <2>4. CASE StopClear \/ StopStep \/ UNCHANGED vars
    BY <2>4, <2>a DEF StopClear, StopStep, StopNotify, StopJoin, vars
  <2> QED BY <2>1, <2>2, <2>3, <2>4 DEF Next
<1> QED BY <1>1, <1>2, <1>3, <1>4 DEF StopInv

LEMMA IInvStep == ASSUME IInv, [Next]_vars PROVE IInv'
<1>1. TypeOK' BY TypeStep
<1>2. Partition' /\ Distinct(tasks)' BY StepIsMove, PartitionStep
<1>3. OneHolder' BY <1>2, HolderStep DEF OneHolder
<1>4. StopInv' BY StopStepInv
<1> QED BY <1>1, <1>2, <1>3, <1>4 DEF IInv

LEMMA Invariance == Spec => []IInv
BY InitIInv, IInvStep, PTL DEF Spec

(* The fields of the pool and the locals of its threads keep their types in *)
(* every behaviour of ThreadPool: what enqueue() appends is a job.          *)
THEOREM PoolTypeOK == Spec => []TypeOK
<1>1. IInv => TypeOK BY DEF IInv
<1> QED BY <1>1, Invariance, PTL

(* No job given to ThreadPool::enqueue() is lost, duplicated or run twice,  *)
(* for any number of workers, callers and jobs.                             *)
THEOREM PoolEachJobOnce == Spec => []EachJobOnce
<1>1. IInv => EachJobOnce BY PartitionIsEachJobOnce DEF IInv
<1> QED BY <1>1, Invariance, PTL

(* ThreadPool::stop() is final: the queue stays empty after it cleared it,  *)
(* and when it has returned no worker is in a job or in enqueue().          *)
THEOREM PoolStopIsFinal == Spec => []StopIsFinal
<1>1. IInv => StopIsFinal
  <2> SUFFICES ASSUME IInv PROVE StopIsFinal OBVIOUS
  <2>1. ~running => tasks = <<>> BY Zenon DEF IInv, StopInv
  <2>2. spc = "stopped" => \A w \in Workers : wpc[w] = "ended" /\ epc[w] = "idle"
    BY DEF IInv, StopInv
  <2> QED BY <2>1, <2>2, Zenon DEF StopIsFinal, Running
<1> QED BY <1>1, Invariance, PTL

-----------------------------------------------------------------------------
(* The pool implements JobQueue. *)

LEMMA InitRefines == Init => Queue!Init
BY DEF Init, Queue!Init, Active, Running

LEMMA StepRefines ==
    ASSUME IInv, [Next]_vars
    PROVE  [Queue!Next]_(Queue!qvars)
<1>a. TypeOK /\ OneHolder /\ Partition BY DEF IInv
<1>b. Apart(Held, Elements(tasks), Active, done, dropped) BY <1>a DEF Partition
<1>c. 1..(next - 1) \subseteq Jobs BY <1>a, ThreadPoolAssumption DEF TypeOK, Jobs
<1>1. ASSUME UNCHANGED <<running, tasks, done>>, Active' = Active
      PROVE  UNCHANGED Queue!qvars
  BY <1>1 DEF Queue!qvars
<1>2. ASSUME NEW t \in Threads, EnqueuePush(t) PROVE Queue!Next
  <2>1. ejob[t] \in Held BY <1>2 DEF EnqueuePush, Held
  <2>2. ejob[t] \in Jobs BY <2>1, <1>a, <1>c DEF Partition
  <2>3. ejob[t] \notin Active \cup done /\ ejob[t] \notin Elements(tasks)
    BY <2>1, <1>b DEF Apart
  <2>4. \A n \in 1..Len(tasks) : tasks[n] # ejob[t] BY <2>3 DEF Elements
  <2>5. running /\ UNCHANGED <<running, Active, done>>
    BY <1>2, ActiveUnchanged DEF EnqueuePush
  <2>6. Queue!Accept(ejob[t]) BY <1>2, <2>3, <2>4, <2>5 DEF EnqueuePush, Queue!Accept
  <2> QED BY <2>2, <2>6 DEF Queue!Next
<1>3. ASSUME NEW w \in Workers, Take(w) PROVE Queue!Next
  <2>1. tasks # <<>> BY <1>3 DEF Take
  <2>2. running BY <2>1, Zenon DEF IInv, StopInv
  <2>3. Queue!Begin BY <1>3, <1>a, <2>1, <2>2, TakeActive DEF Take, Queue!Begin
  <2> QED BY <2>3 DEF Queue!Next
<1>4. ASSUME NEW w \in Workers, Finish(w) PROVE Queue!Next
  <2>1. job[w] \in Active /\ Queue!Finish(job[w])
    BY <1>4, <1>a, FinishActive DEF Finish, Queue!Finish
  <2> QED BY <2>1 DEF Queue!Next
<1>5. CASE StopClear
  <2>1. Queue!Close BY <1>5, ActiveUnchanged DEF StopClear, Queue!Close
  <2> QED BY <2>1 DEF Queue!Next
<1>6. ASSUME NEW t \in Threads, Enqueue(t) \/ EnqueueRefused(t) \/ EnqueueNotify(t)
      PROVE  UNCHANGED Queue!qvars
  BY <1>1, <1>6, ActiveUnchanged DEF Enqueue, EnqueueRefused, EnqueueNotify
<1>7. ASSUME NEW w \in Workers, Sleep(w) \/ Wake(w) \/ Exit(w)
      PROVE  UNCHANGED Queue!qvars
  <2>1. Active' = Active BY <1>7, <1>a, IdleWorkerActive DEF Sleep, Wake, Exit
  <2> QED BY <1>1, <1>7, <2>1 DEF Sleep, Wake, Exit
<1>8. CASE StopStep \/ UNCHANGED vars
  BY <1>1, <1>8, ActiveUnchanged DEF StopStep, StopNotify, StopJoin, vars
<1> QED
  BY <1>2, <1>3, <1>4, <1>5, <1>6, <1>7, <1>8
  DEF Next, EnqueueStep, WorkerStep, WakeNotified, WakeSpurious

(* The pool begins jobs in the order in which it accepted them, each at     *)
(* most once, drops them only in stop() and begins none afterwards: every   *)
(* step of ThreadPool is a step of JobQueue or leaves its variables alone.  *)
THEOREM PoolImplementsJobQueue == Spec => ImplementsJobQueue
<1>1. Init => Queue!Init BY InitRefines
<1>2. IInv /\ [Next]_vars => [Queue!Next]_(Queue!qvars) BY StepRefines
<1> QED BY <1>1, <1>2, Invariance, PTL DEF Spec, ImplementsJobQueue, Queue!Spec

-----------------------------------------------------------------------------
(* No worker sleeps over a job. *)

\* Finitely many threads are about to notify; Clients may be any set.
WakeInv == NoIdleWhileWork /\ IsFiniteSet(Notifying)

LEMMA AwakeIsFinite == TypeOK => IsFiniteSet(Awake) /\ Cardinality(Awake) \in Nat
<1>1. Awake \subseteq Workers BY DEF Awake, Waiting
<1> QED BY <1>1, ThreadPoolAssumption, FS_Subset, FS_CardinalityType

LEMMA NotifyingUnchanged == ASSUME epc' = epc PROVE Notifying' = Notifying
BY DEF Notifying

\* A step that moves neither jobs nor notifications and adds no sleeper.
LEMMA WakeInvKept ==
    ASSUME WakeInv, TypeOK, tasks' = tasks, epc' = epc,
           (Waiting \ woken)' \subseteq Waiting \ woken,
           IsFiniteSet(Awake'), Awake \subseteq Awake'
    PROVE  WakeInv'
<1>1. Cardinality(Awake) <= Cardinality(Awake') BY FS_Subset
<1>2. Cardinality(Awake) \in Nat /\ Cardinality(Awake') \in Nat
  BY AwakeIsFinite, FS_CardinalityType
<1>3. Notifying' = Notifying BY NotifyingUnchanged
<1>4. Cardinality(Notifying) \in Nat BY FS_CardinalityType DEF WakeInv
<1>5. Len(tasks) \in Nat BY DEF TypeOK
<1>6. Waiting' \ woken' # {} => Len(tasks') <= Cardinality(Awake') + Cardinality(Notifying')
  BY <1>1, <1>2, <1>3, <1>4, <1>5 DEF WakeInv, NoIdleWhileWork
<1> QED BY <1>3, <1>6 DEF WakeInv, NoIdleWhileWork

LEMMA WakeStep == ASSUME IInv, WakeInv, [Next]_vars PROVE WakeInv'
<1>a. TypeOK /\ TypeOK' BY TypeStep DEF IInv
<1>b. /\ IsFiniteSet(Awake) /\ Cardinality(Awake) \in Nat
      /\ IsFiniteSet(Awake') /\ Cardinality(Awake') \in Nat
  <2>1. Awake' \subseteq Workers BY DEF Awake, Waiting
  <2> QED BY <1>a, <2>1, AwakeIsFinite, ThreadPoolAssumption, FS_Subset, FS_CardinalityType
<1>c. /\ IsFiniteSet(Notifying) /\ Cardinality(Notifying) \in Nat
  BY FS_CardinalityType DEF WakeInv
<1>d. /\ wpc \in [Workers -> {"check", "wait", "run", "ended"}]
      /\ epc \in [Threads -> {"idle", "push", "notify"}]
      /\ tasks \in Seq(Jobs) /\ Len(tasks) \in Nat /\ woken \subseteq Workers
  BY <1>a DEF TypeOK
<1>e. Waiting \ woken # {} => Len(tasks) <= Cardinality(Awake) + Cardinality(Notifying)
  BY DEF WakeInv, NoIdleWhileWork
<1>f. NoIdleWhileWork' =
        (Waiting' \ woken' # {} => Len(tasks') <= Cardinality(Awake') + Cardinality(Notifying'))
  BY DEF NoIdleWhileWork
<1>g. ASSUME UNCHANGED <<wpc, woken>> PROVE Awake' = Awake /\ Waiting' = Waiting
  BY <1>g DEF Awake, Waiting
<1>h. ASSUME UNCHANGED <<tasks, epc, wpc, woken>> PROVE WakeInv'
  BY <1>a, <1>b, <1>g, <1>h, WakeInvKept
<1>1. ASSUME NEW t \in Threads, Enqueue(t) \/ EnqueueRefused(t) PROVE WakeInv'
  <2>1. /\ UNCHANGED <<tasks, wpc, woken>>
        /\ epc[t] # "notify" /\ epc' \in {[epc EXCEPT ![t] = "push"], [epc EXCEPT ![t] = "idle"]}
    BY <1>1 DEF Enqueue, EnqueueRefused
  <2>2. Notifying' = Notifying BY <2>1, <1>d DEF Notifying
  <2> QED BY <1>c, <1>e, <1>f, <1>g, <2>1, <2>2 DEF WakeInv
<1>2. ASSUME NEW t \in Threads, EnqueuePush(t) PROVE WakeInv'
  <2>1. /\ tasks' = Append(tasks, ejob[t]) /\ UNCHANGED <<wpc, woken>>
        /\ epc[t] = "push" /\ epc' = [epc EXCEPT ![t] = "notify"]
    BY <1>2 DEF EnqueuePush
  <2>2. Notifying' = Notifying \cup {t} /\ t \notin Notifying BY <2>1, <1>d DEF Notifying
  <2>3. IsFiniteSet(Notifying') /\ Cardinality(Notifying') = Cardinality(Notifying) + 1
    BY <2>2, <1>c, FS_AddElement
  <2>4. Len(tasks') = Len(tasks) + 1
    <3>1. tasks' \in Seq(Jobs) BY <1>a DEF TypeOK
    <3> QED BY <2>1, <1>d, <3>1
  <2>5. Awake' = Awake /\ Waiting' = Waiting BY <1>g, <2>1
  <2>6. Waiting' \ woken' # {} => Len(tasks') <= Cardinality(Awake') + Cardinality(Notifying')
    BY <1>b, <1>c, <1>d, <1>e, <2>1, <2>3, <2>4, <2>5
  <2> QED BY <1>f, <2>3, <2>6 DEF WakeInv
<1>3. ASSUME NEW t \in Threads, EnqueueNotify(t) PROVE WakeInv'
  <2>1. /\ epc[t] = "notify" /\ epc' = [epc EXCEPT ![t] = "idle"] /\ UNCHANGED <<tasks, wpc>>
    BY <1>3 DEF EnqueueNotify
  <2>2. Notifying' = Notifying \ {t} /\ t \in Notifying BY <2>1, <1>d DEF Notifying
  <2>3. IsFiniteSet(Notifying') /\ Cardinality(Notifying') = Cardinality(Notifying) - 1
    BY <2>2, <1>c, FS_RemoveElement
  <2>4. Waiting' = Waiting BY <2>1 DEF Waiting
  <2>5. CASE Waiting \subseteq woken /\ woken' = woken
    BY <1>f, <2>3, <2>4, <2>5 DEF WakeInv
  <2>6. ASSUME NEW w \in Waiting \ woken, woken' = woken \cup {w} PROVE WakeInv'
    <3>1. Awake' = Awake \cup {w} /\ w \notin Awake
      BY <2>1, <2>6 DEF Awake, Waiting
    <3>2. Cardinality(Awake') = Cardinality(Awake) + 1 BY <3>1, <1>b, FS_AddElement
    <3>3. Waiting \ woken # {} BY <2>6
    <3>4. Len(tasks') <= Cardinality(Awake') + Cardinality(Notifying')
      BY <1>b, <1>c, <1>d, <1>e, <2>1, <2>3, <3>2, <3>3
    <3> QED BY <1>f, <2>3, <3>4 DEF WakeInv
  <2> QED BY <1>3, <2>5, <2>6 DEF EnqueueNotify
<1>4. ASSUME tasks' = <<>>, epc' = epc PROVE WakeInv'
  <2>1. Notifying' = Notifying BY <1>4, NotifyingUnchanged
  <2>2. Len(tasks') = 0 BY <1>4
  <2>3. Cardinality(Awake') + Cardinality(Notifying') >= 0 BY <1>b, <1>c, <2>1
  <2>4. Len(tasks') <= Cardinality(Awake') + Cardinality(Notifying') BY <2>2, <2>3
  <2>5. IsFiniteSet(Notifying') BY <1>c, <2>1
  <2> QED BY <1>f, <2>4, <2>5 DEF WakeInv
<1>5. ASSUME NEW w \in Workers, Sleep(w) \/ Exit(w) PROVE WakeInv'
  BY <1>4, <1>5 DEF Sleep, Exit
<1>6. ASSUME NEW w \in Workers, Wake(w) PROVE WakeInv'
  <2>1. /\ wpc[w] = "wait" /\ wpc' = [wpc EXCEPT ![w] = "check"] /\ woken' = woken \ {w}
        /\ UNCHANGED <<tasks, epc>>
    BY <1>6 DEF Wake
  <2>2. Awake \subseteq Awake' BY <2>1, <1>d DEF Awake, Waiting
  <2>3. (Waiting \ woken)' \subseteq Waiting \ woken BY <2>1, <1>d DEF Waiting
  <2> QED BY <1>a, <1>b, <2>1, <2>2, <2>3, WakeInvKept
<1>7. ASSUME NEW w \in Workers, Take(w) PROVE WakeInv'
  <2>1. /\ wpc[w] = "check" /\ wpc' = [wpc EXCEPT ![w] = "run"] /\ tasks # <<>>
        /\ tasks' = Tail(tasks) /\ UNCHANGED <<woken, epc>>
    BY <1>7 DEF Take
  <2>2. Awake' = Awake \ {w} /\ w \in Awake BY <2>1, <1>d DEF Awake, Waiting
  <2>3. Cardinality(Awake') = Cardinality(Awake) - 1 BY <2>2, <1>b, FS_RemoveElement
  <2>4. Len(tasks') = Len(tasks) - 1 BY <2>1, <1>d
  <2>5. Waiting' = Waiting BY <2>1, <1>d DEF Waiting
  <2>6. Notifying' = Notifying BY <2>1, NotifyingUnchanged
  <2>7. Waiting' \ woken' # {} => Len(tasks') <= Cardinality(Awake') + Cardinality(Notifying')
    BY <1>b, <1>c, <1>d, <1>e, <2>1, <2>3, <2>4, <2>5, <2>6
  <2>8. IsFiniteSet(Notifying') BY <1>c, <2>6
  <2> QED BY <1>f, <2>7, <2>8 DEF WakeInv
<1>8. ASSUME NEW w \in Workers, Finish(w) PROVE WakeInv'
  <2>1. /\ wpc[w] = "run" /\ wpc' = [wpc EXCEPT ![w] = "check"]
        /\ UNCHANGED <<tasks, woken, epc>>
    BY <1>8 DEF Finish
  <2>2. Awake \subseteq Awake' BY <2>1, <1>d DEF Awake, Waiting
  <2>3. (Waiting \ woken)' \subseteq Waiting \ woken BY <2>1, <1>d DEF Waiting
  <2> QED BY <1>a, <1>b, <2>1, <2>2, <2>3, WakeInvKept
<1>9. CASE StopClear BY <1>4, <1>9 DEF StopClear
<1>10. CASE StopNotify
  <2>1. /\ woken' = woken \cup Waiting /\ UNCHANGED <<wpc, epc, tasks>> BY <1>10 DEF StopNotify
  <2>2. Waiting' \ woken' = {} BY <2>1 DEF Waiting
  <2> QED BY <1>c, <1>f, <2>1, <2>2, NotifyingUnchanged DEF WakeInv
<1>11. CASE StopJoin \/ UNCHANGED vars BY <1>h, <1>11 DEF StopJoin, vars
<1> QED
  BY <1>1, <1>2, <1>3, <1>5, <1>6, <1>7, <1>8, <1>9, <1>10, <1>11
  DEF Next, EnqueueStep, WorkerStep, StopStep, WakeNotified, WakeSpurious

(* notify_one() after the mutex was released loses no wake-up in            *)
(* ThreadPool::enqueue(): for any number of workers, callers and jobs there *)
(* are as many wake-ups under way as jobs waiting whenever a worker sleeps  *)
(* that no notification has reached.                                        *)
THEOREM PoolNoIdleWhileWork == Spec => []NoIdleWhileWork
<1>1. Init => WakeInv
  <2> SUFFICES ASSUME Init PROVE WakeInv OBVIOUS
  <2>1. Notifying = {} /\ Waiting = {} BY DEF Init, Notifying, Waiting
  <2> QED BY <2>1, FS_EmptySet DEF WakeInv, NoIdleWhileWork
<1>2. IInv /\ WakeInv /\ [Next]_vars => WakeInv' BY WakeStep
<1>3. WakeInv => NoIdleWhileWork BY DEF WakeInv
<1> QED BY <1>1, <1>2, <1>3, Invariance, PTL DEF Spec

=============================================================================
