----------------------------- MODULE ThreadPool -----------------------------
(***************************************************************************)
(* The worker threads of the daemon, daemon/src/core/thread_pool.cpp.      *)
(*                                                                         *)
(* Every access to ThreadPool::tasks is inside one critical section, which *)
(* is one action here; the notifications are sent after the mutex was      *)
(* released and are actions of their own.  A job is the number of the call *)
(* of enqueue() that brought it.  Jobs are enqueued by the other threads   *)
(* of the daemon (Clients) and by running jobs.                            *)
(***************************************************************************)
EXTENDS Naturals, Sequences, FiniteSets

CONSTANTS
    Workers,    \* the threads of the pool
    Clients,    \* the other threads that call enqueue()
    MaxJobs     \* bound: calls of enqueue() in a behaviour

ASSUME ThreadPoolAssumption ==
    /\ IsFiniteSet(Workers) /\ Workers # {}
    /\ Workers \cap Clients = {}
    /\ MaxJobs \in Nat

VARIABLES
    running,    \* ThreadPool::running
    tasks,      \* ThreadPool::tasks
    wpc,        \* where each worker is in worker_loop()
    woken,      \* the waiting workers a notification has reached
    job,        \* the local task of each worker
    epc,        \* where each thread is in enqueue()
    ejob,       \* the task each thread is passing to enqueue()
    spc,        \* where the main thread is in stop()
    next,       \* the number of the next call of enqueue()
    done,       \* history: the jobs that ran to the end
    dropped     \* history: the jobs that will never run

vars == <<running, tasks, wpc, woken, job, epc, ejob, spc, next, done, dropped>>

Threads == Workers \cup Clients
Jobs == 1..MaxJobs
NoJob == 0

Waiting == {w \in Workers : wpc[w] = "wait"}
Running == {w \in Workers : wpc[w] = "run"}
Elements(s) == {s[n] : n \in 1..Len(s)}

-----------------------------------------------------------------------------
(* enqueue() *)

\* A thread calls enqueue(); a worker does so from inside its job.
Enqueue(t) ==
    /\ next <= MaxJobs
    /\ epc[t] = "idle" /\ (t \in Workers => wpc[t] = "run")
    /\ epc' = [epc EXCEPT ![t] = "push"]
    /\ ejob' = [ejob EXCEPT ![t] = next]
    /\ next' = next + 1
    /\ UNCHANGED <<running, tasks, wpc, woken, job, spc, done, dropped>>

\* Where push() puts a job, and whether the pool still takes one.
PushFront(j) == <<j>> \o tasks
PushBack(j) == Append(tasks, j)
AlwaysAccepts == TRUE
Accepts == running

\* The critical section of enqueue().
EnqueuePush(t) ==
    /\ epc[t] = "push" /\ Accepts
    /\ tasks' = PushBack(ejob[t])
    /\ epc' = [epc EXCEPT ![t] = "notify"]
    /\ ejob' = [ejob EXCEPT ![t] = NoJob]
    /\ UNCHANGED <<running, wpc, woken, job, spc, next, done, dropped>>

\* Its early return once the pool was stopped.
EnqueueRefused(t) ==
    /\ epc[t] = "push" /\ ~Accepts
    /\ epc' = [epc EXCEPT ![t] = "idle"]
    /\ dropped' = dropped \cup {ejob[t]}
    /\ ejob' = [ejob EXCEPT ![t] = NoJob]
    /\ UNCHANGED <<running, tasks, wpc, woken, job, spc, next, done>>

\* cv.notify_one(): some waiting worker, if there is one that was not reached.
WakesNone(w) == woken
WakesOne(w) == woken \cup {w}

EnqueueNotify(t) ==
    /\ epc[t] = "notify"
    /\ \/ Waiting \subseteq woken /\ woken' = woken
       \/ \E w \in Waiting \ woken : woken' = WakesOne(w)
    /\ epc' = [epc EXCEPT ![t] = "idle"]
    /\ UNCHANGED <<running, tasks, wpc, job, ejob, spc, next, done, dropped>>

-----------------------------------------------------------------------------
(* worker_loop() *)

\* The predicate of cv.wait fails: the worker blocks.
Sleep(w) ==
    /\ wpc[w] = "check" /\ tasks = <<>> /\ running
    /\ wpc' = [wpc EXCEPT ![w] = "wait"]
    /\ UNCHANGED <<running, tasks, woken, job, epc, ejob, spc, next, done, dropped>>

\* cv.wait returns to its predicate, notified or on its own.
Wake(w) ==
    /\ wpc[w] = "wait"
    /\ wpc' = [wpc EXCEPT ![w] = "check"]
    /\ woken' = woken \ {w}
    /\ UNCHANGED <<running, tasks, job, epc, ejob, spc, next, done, dropped>>

WakeNotified(w) == w \in woken /\ Wake(w)
WakeSpurious(w) == w \notin woken /\ Wake(w)

\* !running and no task: the worker's thread ends.
Exit(w) ==
    /\ wpc[w] = "check" /\ tasks = <<>> /\ ~running
    /\ wpc' = [wpc EXCEPT ![w] = "ended"]
    /\ UNCHANGED <<running, tasks, woken, job, epc, ejob, spc, next, done, dropped>>

\* The first task is taken out of the queue.
TakeAndKeep == tasks
TakeFront == Tail(tasks)

Take(w) ==
    /\ wpc[w] = "check" /\ tasks # <<>>
    /\ wpc' = [wpc EXCEPT ![w] = "run"]
    /\ job' = [job EXCEPT ![w] = Head(tasks)]
    /\ tasks' = TakeFront
    /\ UNCHANGED <<running, woken, epc, ejob, spc, next, done, dropped>>

\* task() returns, or throws a std::exception that the worker logs.
Finish(w) ==
    /\ wpc[w] = "run" /\ epc[w] = "idle"
    /\ wpc' = [wpc EXCEPT ![w] = "check"]
    /\ done' = done \cup {job[w]}
    /\ job' = [job EXCEPT ![w] = NoJob]
    /\ UNCHANGED <<running, tasks, woken, epc, ejob, spc, next, dropped>>

-----------------------------------------------------------------------------
(* stop(), called by the main thread *)

StopClear ==
    /\ spc = "idle"
    /\ running' = FALSE
    /\ tasks' = <<>>
    /\ dropped' = dropped \cup Elements(tasks)
    /\ spc' = "notify"
    /\ UNCHANGED <<wpc, woken, job, epc, ejob, next, done>>

\* cv.notify_all().
NotifiesNobody == woken
NotifiesAll == woken \cup Waiting

StopNotify ==
    /\ spc = "notify"
    /\ woken' = NotifiesAll
    /\ spc' = "join"
    /\ UNCHANGED <<running, tasks, wpc, job, epc, ejob, next, done, dropped>>

\* Every worker is joined.
JoinsAll == \A w \in Workers : wpc[w] = "ended"

StopJoin ==
    /\ spc = "join" /\ JoinsAll
    /\ spc' = "stopped"
    /\ UNCHANGED <<running, tasks, wpc, woken, job, epc, ejob, next, done, dropped>>

-----------------------------------------------------------------------------
Init ==
    /\ running = TRUE
    /\ tasks = <<>>
    /\ wpc = [w \in Workers |-> "check"]
    /\ woken = {}
    /\ job = [w \in Workers |-> NoJob]
    /\ epc = [t \in Threads |-> "idle"]
    /\ ejob = [t \in Threads |-> NoJob]
    /\ spc = "idle"
    /\ next = 1
    /\ done = {} /\ dropped = {}

EnqueueStep(t) == EnqueuePush(t) \/ EnqueueRefused(t) \/ EnqueueNotify(t)
WorkerStep(w) == Sleep(w) \/ WakeNotified(w) \/ Exit(w) \/ Take(w) \/ Finish(w)
StopStep == StopNotify \/ StopJoin

Next ==
    \/ \E t \in Threads : Enqueue(t) \/ EnqueueStep(t)
    \/ \E w \in Workers : WorkerStep(w) \/ WakeSpurious(w)
    \/ StopClear \/ StopStep

Spec == Init /\ [][Next]_vars

(***************************************************************************)
(* Fairness: every thread that can go on does, and jobs return.  Nobody    *)
(* has to call enqueue() or stop(), and no worker wakes up on its own.     *)
(***************************************************************************)
Fairness ==
    /\ \A t \in Threads : WF_vars(EnqueueStep(t))
    /\ \A w \in Workers : WF_vars(WorkerStep(w))
    /\ WF_vars(StopStep)

FairSpec == Spec /\ Fairness

-----------------------------------------------------------------------------
(* Type invariant of the pool's fields and of the locals of its threads. *)
TypeOK ==
    /\ running \in BOOLEAN
    /\ tasks \in Seq(Jobs)
    /\ wpc \in [Workers -> {"check", "wait", "run", "ended"}]
    /\ woken \subseteq Workers
    /\ job \in [Workers -> Jobs \cup {NoJob}]
    /\ epc \in [Threads -> {"idle", "push", "notify"}]
    /\ ejob \in [Threads -> Jobs \cup {NoJob}]
    /\ spc \in {"idle", "notify", "join", "stopped"}
    /\ next \in 1..(MaxJobs + 1)
    /\ done \subseteq Jobs /\ dropped \subseteq Jobs

Held == {ejob[t] : t \in {u \in Threads : epc[u] = "push"}}
Active == {job[w] : w \in Running}

(* A job given to enqueue() is in exactly one place: with its caller, in    *)
(* the queue (once), with one worker, finished or dropped by stop().  None  *)
(* is lost between the queue and the workers and none is run twice.         *)
EachJobOnce ==
    /\ Held \cup Elements(tasks) \cup Active \cup done \cup dropped = 1..(next - 1)
    /\ LET places == <<Held, Elements(tasks), Active, done, dropped>>
       IN \A m, n \in 1..5 : m < n => places[m] \cap places[n] = {}
    /\ \A t, u \in Threads : epc[t] = "push" /\ epc[u] = "push" /\ ejob[t] = ejob[u] => t = u
    /\ \A v, w \in Running : job[v] = job[w] => v = w
    /\ \A m, n \in 1..Len(tasks) : tasks[m] = tasks[n] => m = n

(* While a worker sleeps that no notification has reached, there are at     *)
(* least as many wake-ups under way (callers about to notify, workers that  *)
(* were notified or are at their predicate) as jobs waiting: enqueue()      *)
(* notifies one worker per job, after it has released the mutex.            *)
Awake == {w \in Workers : wpc[w] = "check"} \cup (Waiting \cap woken)
Notifying == {t \in Threads : epc[t] = "notify"}

NoIdleWhileWork ==
    Waiting \ woken # {} => Len(tasks) <= Cardinality(Awake) + Cardinality(Notifying)

(* After stop() has cleared the queue nothing enters it again, so no worker *)
(* takes another job, and when stop() has returned no job is running.       *)
StopIsFinal ==
    /\ ~running => tasks = <<>>
    /\ spc = "stopped" => Running = {} /\ \A w \in Workers : epc[w] = "idle"

(* The pool implements the abstract queue of jobs. *)
Queue == INSTANCE JobQueue WITH
    Job <- Jobs, open <- running, pending <- tasks,
    active <- Active, finished <- done

ImplementsJobQueue == Queue!Spec

(* A job in the queue is run to its end, or dropped by a stop(): no worker  *)
(* sleeps for ever while a job waits.  And stop() returns: every worker     *)
(* leaves its loop, wherever the flag found it.                             *)
PoolMakesProgress ==
    /\ \A j \in Jobs : j \in Elements(tasks) ~> j \in done \cup dropped
    /\ spc = "notify" ~> spc = "stopped"

=============================================================================
