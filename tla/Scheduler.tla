------------------------------ MODULE Scheduler ------------------------------
(***************************************************************************)
(* The timer thread of the daemon, daemon/src/core/scheduler.cpp.          *)
(*                                                                         *)
(* Threads: the scheduler thread (loop()) and the threads that call the    *)
(* public operations: the main thread, which starts and stops the          *)
(* scheduler, and the workers of the pool, whose event handlers call       *)
(* once().  A critical section under Scheduler::mutex is one action; every *)
(* place where the code has released the mutex is a place where the other  *)
(* threads may step.                                                       *)
(***************************************************************************)
EXTENDS Integers, FiniteSets

CONSTANTS
    Main,       \* the thread that runs main()
    Workers,    \* the pool threads whose handlers call once()
    Intervals,  \* the periods passed to every(), in clock ticks
    Delays,     \* the delays passed to once(), in clock ticks
    MaxId,      \* bound: tasks created in a behaviour
    MaxTime     \* bound: the last clock value

Clients == Workers \cup {Main}

ASSUME SchedulerAssumption ==
    /\ Main \notin Workers
    /\ Intervals \subseteq Nat \ {0}
    /\ Delays \subseteq Nat
    /\ MaxId \in Nat
    /\ MaxTime \in Nat

Never == -1     \* "has not started yet", for the history of start times

VARIABLES
    running,    \* Scheduler::running
    queue,      \* Scheduler::queue, the pending tasks
    cancelled,  \* Scheduler::cancelled
    next_id,    \* Scheduler::next_id
    now,        \* used_clock::now()
    pc,         \* where the scheduler thread is
    notified,   \* a notify reached the waiting scheduler thread
    until,      \* the deadline of cv.wait_until, while pc = "waitUntil"
    cur,        \* the local task of loop()
    keep,       \* the local keep_running of loop()
    cpc,        \* where each client thread is
    arg,        \* the task a client is creating (its id: for cancel too)
    lastStart,  \* history: when the function of a task last started
    afterCancel,\* history: starts of a task after its cancel() returned
    afterStop   \* history: starts after stop() has cleared running

loopVars == <<pc, notified, until, cur, keep>>
clientVars == <<cpc, arg>>
history == <<lastStart, afterCancel, afterStop>>
vars == <<running, queue, cancelled, next_id, now, loopVars, clientVars, history>>

Ids == 1..MaxId

Task == [id : Nat, time : Nat, interval : Nat]

NoTask == [id |-> 0, time |-> 0, interval |-> 0]

LoopPcs == {"none", "relock", "loop", "wait", "waitUntil",
            "popped", "call", "func", "check", "push", "done"}

ClientPcs == {"idle", "schedule", "notify", "inserting", "stopNotify", "join"}

(***************************************************************************)
(* Where a helper is preceded by a variant of itself, the variant is the   *)
(* form a plausible mistake would give it; no action uses it.  TLC is run  *)
(* with it to confirm that the properties notice the mistake.              *)
(*                                                                         *)
(* The mutex is held across actions in two cases only: by the scheduler    *)
(* thread while it goes round the loop, and by a client inside cancel().   *)
(***************************************************************************)
MutexFree == pc # "loop" /\ \A c \in Clients : cpc[c] # "inserting"

\* The scheduler thread is blocked on the condition variable.
Waiting == pc \in {"wait", "waitUntil"}

\* cv.notify_one() and cv.notify_all(): one thread only ever waits.
NotifyNobody == UNCHANGED notified
Notify == notified' = (notified \/ Waiting)

\* The task of loop() is owned by the scheduler thread, not by the queue.
InFlight == pc \in {"popped", "call", "func", "check", "push"}

\* Some cancel(i) has returned to its caller.
CancelReturned(i) ==
    i \in cancelled /\ \A c \in Clients : ~(cpc[c] = "inserting" /\ arg[c].id = i)

\* queue.top(): a task with the earliest time, any of them when several tie.
TopUnordered(t) == t \in queue
Top(t) == t \in queue /\ \A u \in queue : t.time <= u.time

\* queue.pop() of the top task t.
WithoutPop(t) == queue
Pop(t) == queue \ {t}

\* running.load(), the condition of the loop, of the call and of the re-push.
LoopUntilEmpty == running \/ queue # {}
KeepLooping == running

\* The check under the mutex that a popped task was not cancelled.
NotLookedUp(t) == FALSE
IsCancelled(t) == t.id \in cancelled

\* The time of a task created now with a delay, and of one that has just run.
DelayFromNow(d) == now + d
IntervalAfterTime(t) == t.time + t.interval
NextTime(t) == now + t.interval

-----------------------------------------------------------------------------
(* The operations of the clients. *)

\* start(): sets running and creates the thread, which first takes the mutex.
Start ==
    /\ pc = "none" /\ cpc[Main] = "idle"
    /\ running' = TRUE
    /\ pc' = "relock"
    /\ UNCHANGED <<queue, cancelled, next_id, now, notified, until, cur, keep,
                   clientVars, history>>

\* every(): the id and the time are taken before the mutex.
Every(c, i) ==
    /\ cpc[c] = "idle" /\ next_id <= MaxId
    /\ cpc' = [cpc EXCEPT ![c] = "schedule"]
    /\ arg' = [arg EXCEPT ![c] = [id |-> next_id, time |-> now, interval |-> i]]
    /\ next_id' = next_id + 1
    /\ UNCHANGED <<running, queue, cancelled, now, loopVars, history>>

\* once(), both overloads: the delay is added to the clock.
Once(c, d) ==
    /\ cpc[c] = "idle" /\ next_id <= MaxId
    /\ cpc' = [cpc EXCEPT ![c] = "schedule"]
    /\ arg' = [arg EXCEPT ![c] = [id |-> next_id, time |-> DelayFromNow(d), interval |-> 0]]
    /\ next_id' = next_id + 1
    /\ UNCHANGED <<running, queue, cancelled, now, loopVars, history>>

\* The critical section of schedule().
SchedulePush(c) ==
    /\ cpc[c] = "schedule" /\ MutexFree
    /\ queue' = queue \cup {arg[c]}
    /\ cpc' = [cpc EXCEPT ![c] = "notify"]
    /\ arg' = [arg EXCEPT ![c] = NoTask]
    /\ UNCHANGED <<running, cancelled, next_id, now, loopVars, history>>

\* The cv.notify_one() of schedule(), after the mutex was released.
ScheduleNotify(c) ==
    /\ cpc[c] = "notify"
    /\ Notify
    /\ cpc' = [cpc EXCEPT ![c] = "idle"]
    /\ UNCHANGED <<running, queue, cancelled, next_id, now, pc, until, cur, keep,
                   arg, history>>

\* cancel(id), for an id some every() or once() has returned: the mutex is
\* taken and the insertion into the set begins.
CancelBegin(c, i) ==
    /\ cpc[c] = "idle" /\ MutexFree
    /\ i < next_id /\ i \notin cancelled
    /\ \A d \in Clients : cpc[d] = "schedule" => arg[d].id # i
    /\ cancelled' = cancelled \cup {i}
    /\ cpc' = [cpc EXCEPT ![c] = "inserting"]
    /\ arg' = [arg EXCEPT ![c] = [id |-> i, time |-> 0, interval |-> 0]]
    /\ UNCHANGED <<running, queue, next_id, now, loopVars, history>>

\* cancel() releases the mutex and returns.
CancelEnd(c) ==
    /\ cpc[c] = "inserting"
    /\ cpc' = [cpc EXCEPT ![c] = "idle"]
    /\ arg' = [arg EXCEPT ![c] = NoTask]
    /\ UNCHANGED <<running, queue, cancelled, next_id, now, loopVars, history>>

\* The critical section of stop(): clears the flag and empties the queue.
StopClear ==
    /\ cpc[Main] = "idle" /\ pc # "none" /\ MutexFree
    /\ running' = FALSE
    /\ queue' = {}
    /\ cpc' = [cpc EXCEPT ![Main] = "stopNotify"]
    /\ UNCHANGED <<cancelled, next_id, now, loopVars, arg, history>>

\* The cv.notify_all() of stop(), after the mutex was released.
StopNotify ==
    /\ cpc[Main] = "stopNotify"
    /\ Notify
    /\ cpc' = [cpc EXCEPT ![Main] = "join"]
    /\ UNCHANGED <<running, queue, cancelled, next_id, now, pc, until, cur, keep,
                   arg, history>>

\* thread.join() returns once loop() has; a second stop() finds no thread.
StopJoin ==
    /\ cpc[Main] = "join" /\ pc = "done"
    /\ cpc' = [cpc EXCEPT ![Main] = "idle"]
    /\ UNCHANGED <<running, queue, cancelled, next_id, now, loopVars, arg, history>>

-----------------------------------------------------------------------------
(* The steps of loop(). *)

\* std::unique_lock at the start, lock.lock() at the end of a round, and the
\* re-acquisition inside cv.wait.
Relock ==
    /\ pc = "relock" /\ MutexFree
    /\ pc' = "loop"
    /\ UNCHANGED <<running, queue, cancelled, next_id, now, notified, until, cur,
                   keep, clientVars, history>>

\* while (running) fails: what is left in the queue is dropped.
LoopExit ==
    /\ pc = "loop" /\ ~KeepLooping
    /\ pc' = "done"
    /\ queue' = {}
    /\ UNCHANGED <<running, cancelled, next_id, now, notified, until, cur, keep,
                   clientVars, history>>

\* queue.empty(): cv.wait releases the mutex.
LoopWait ==
    /\ pc = "loop" /\ KeepLooping /\ queue = {}
    /\ pc' = "wait"
    /\ notified' = FALSE
    /\ UNCHANGED <<running, queue, cancelled, next_id, now, until, cur, keep,
                   clientVars, history>>

\* next.time > now: cv.wait_until releases the mutex.
LoopWaitUntil ==
    /\ pc = "loop" /\ KeepLooping
    /\ \E t \in queue : Top(t) /\ t.time > now /\ until' = t.time
    /\ pc' = "waitUntil"
    /\ notified' = FALSE
    /\ UNCHANGED <<running, queue, cancelled, next_id, now, cur, keep, clientVars,
                   history>>

\* A due task that was cancelled is popped and forgotten; the mutex is kept.
LoopDrop ==
    /\ pc = "loop" /\ KeepLooping
    /\ \E t \in queue : /\ Top(t) /\ t.time <= now /\ IsCancelled(t)
                        /\ queue' = Pop(t)
    /\ UNCHANGED <<running, cancelled, next_id, now, loopVars, clientVars, history>>

\* A due task is popped and the mutex is released.
LoopPop ==
    /\ pc = "loop" /\ KeepLooping
    /\ \E t \in queue : /\ Top(t) /\ t.time <= now /\ ~IsCancelled(t)
                        /\ queue' = Pop(t)
                        /\ cur' = t
    /\ pc' = "popped"
    /\ UNCHANGED <<running, cancelled, next_id, now, notified, until, keep,
                   clientVars, history>>

\* if (running.load()): from here on a stop() no longer holds the call back.
FuncAllowed ==
    /\ pc = "popped" /\ KeepLooping
    /\ pc' = "call"
    /\ UNCHANGED <<running, queue, cancelled, next_id, now, notified, until, cur,
                   keep, clientVars, history>>

\* task.func() is entered.
FuncStart ==
    /\ pc = "call"
    /\ pc' = "func"
    /\ lastStart' = [lastStart EXCEPT ![cur.id] = now]
    /\ afterCancel' = IF CancelReturned(cur.id)
                        THEN [afterCancel EXCEPT ![cur.id] = @ + 1]
                        ELSE afterCancel
    /\ afterStop' = IF running THEN afterStop ELSE afterStop + 1
    /\ UNCHANGED <<running, queue, cancelled, next_id, now, notified, until, cur,
                   keep, clientVars>>

\* ... or not, when stop() came first; keep_running keeps its initial value.
FuncSkip ==
    /\ pc = "popped" /\ ~KeepLooping
    /\ pc' = "check"
    /\ keep' = TRUE
    /\ UNCHANGED <<running, queue, cancelled, next_id, now, notified, until, cur,
                   clientVars, history>>

\* The function returns whether it wants to go on.
FuncReturn ==
    /\ pc = "func"
    /\ keep' \in BOOLEAN
    /\ pc' = "check"
    /\ UNCHANGED <<running, queue, cancelled, next_id, now, notified, until, cur,
                   clientVars, history>>

(***************************************************************************)
(* cancelled.contains(task.id) without the mutex.  Read while a client     *)
(* inserts, the hash table may be rehashing under the reader: an id that   *)
(* is in it may be missed.  An id that is not in it is never found.        *)
(***************************************************************************)
MayMiss(i) == i \notin cancelled \/ \E c \in Clients : cpc[c] = "inserting"

\* The condition for going on, and the next time, both without the mutex.
CheckAgain ==
    /\ pc = "check"
    /\ KeepLooping /\ keep /\ cur.interval > 0
    /\ MayMiss(cur.id)
    /\ cur' = [cur EXCEPT !.time = NextTime(cur)]
    /\ pc' = "push"
    /\ UNCHANGED <<running, queue, cancelled, next_id, now, notified, until, keep,
                   clientVars, history>>

CheckDone ==
    /\ pc = "check"
    /\ \/ ~(KeepLooping /\ keep /\ cur.interval > 0)
       \/ cur.id \in cancelled
    /\ pc' = "relock"
    /\ cur' = NoTask /\ keep' = FALSE
    /\ UNCHANGED <<running, queue, cancelled, next_id, now, notified, until,
                   clientVars, history>>

\* lock.lock(); queue.push(task); lock.unlock().
PushAgain ==
    /\ pc = "push" /\ MutexFree
    /\ queue' = queue \cup {cur}
    /\ pc' = "relock"
    /\ cur' = NoTask /\ keep' = FALSE
    /\ UNCHANGED <<running, cancelled, next_id, now, notified, until,
                   clientVars, history>>

\* The ways out of cv.wait and cv.wait_until; the mutex is then taken again.
WaitReturns ==
    /\ pc' = "relock"
    /\ notified' = FALSE /\ until' = 0
    /\ UNCHANGED <<running, queue, cancelled, next_id, now, cur, keep, clientVars,
                   history>>

WakeNotified ==
    /\ Waiting /\ notified
    /\ WaitReturns

WakeTimeout ==
    /\ pc = "waitUntil" /\ until <= now
    /\ WaitReturns

WakeSpurious ==
    /\ Waiting
    /\ WaitReturns

\* The steady clock.
Tick ==
    /\ now < MaxTime
    /\ now' = now + 1
    /\ UNCHANGED <<running, queue, cancelled, next_id, loopVars, clientVars, history>>

-----------------------------------------------------------------------------
Init ==
    /\ running = FALSE
    /\ queue = {}
    /\ cancelled = {}
    /\ next_id = 1
    /\ now = 0
    /\ pc = "none" /\ notified = FALSE /\ until = 0
    /\ cur = NoTask /\ keep = FALSE
    /\ cpc = [c \in Clients |-> "idle"]
    /\ arg = [c \in Clients |-> NoTask]
    /\ lastStart = [i \in Ids |-> Never]
    /\ afterCancel = [i \in Ids |-> 0]
    /\ afterStop = 0

ClientStep(c) ==
    \/ \E i \in Intervals : Every(c, i)
    \/ \E d \in Delays : Once(c, d)
    \/ SchedulePush(c)
    \/ ScheduleNotify(c)
    \/ \E i \in Ids : CancelBegin(c, i)
    \/ CancelEnd(c)

MainStep == Start \/ StopClear \/ StopNotify \/ StopJoin

LoopStep ==
    \/ Relock \/ LoopExit \/ LoopWait \/ LoopWaitUntil \/ LoopDrop \/ LoopPop
    \/ FuncAllowed \/ FuncStart \/ FuncSkip \/ FuncReturn \/ CheckAgain \/ CheckDone \/ PushAgain
    \/ WakeNotified \/ WakeTimeout

Next == (\E c \in Clients : ClientStep(c)) \/ MainStep \/ LoopStep \/ WakeSpurious \/ Tick

(***************************************************************************)
(* Fairness: the operating system runs every thread that is not blocked,   *)
(* the functions the daemon schedules return, the clock advances.  Nobody  *)
(* has to call every(), once(), cancel() or stop(), and no spurious        *)
(* wake-up may be counted on.  Relock competes with clients for the mutex, *)
(* which each client holds for a bounded time.                             *)
(***************************************************************************)
Fairness ==
    /\ WF_vars(LoopStep /\ pc # "relock") /\ SF_vars(Relock) /\ SF_vars(PushAgain)
    /\ \A c \in Clients : /\ SF_vars(SchedulePush(c))
                          /\ WF_vars(ScheduleNotify(c))
                          /\ WF_vars(CancelEnd(c))
    /\ WF_vars(StopNotify) /\ WF_vars(StopJoin)
    /\ WF_vars(Tick)

Spec == Init /\ [][Next]_vars

FairSpec == Spec /\ Fairness

-----------------------------------------------------------------------------
(* Type invariant of the scheduler's fields and of the locals of loop(). *)
TypeOK ==
    /\ running \in BOOLEAN
    /\ queue \subseteq Task
    /\ cancelled \subseteq Ids
    /\ next_id \in 1..(MaxId + 1)
    /\ now \in 0..MaxTime
    /\ pc \in LoopPcs /\ notified \in BOOLEAN /\ until \in Nat
    /\ cur \in Task /\ keep \in BOOLEAN
    /\ cpc \in [Clients -> ClientPcs]
    /\ arg \in [Clients -> Task]
    /\ lastStart \in [Ids -> Nat \cup {Never}]
    /\ afterCancel \in [Ids -> Nat] /\ afterStop \in Nat

(* A task object is in one place: the queue, loop()'s local or a client's   *)
(* call; it is never in the queue twice.  A task that were in two places    *)
(* would run twice per period.                                              *)
OneCopy ==
    /\ \A t, u \in queue : t.id = u.id => t = u
    /\ InFlight => \A t \in queue : t.id # cur.id
    /\ \A c \in Clients : cpc[c] = "schedule" =>
          /\ \A t \in queue : t.id # arg[c].id
          /\ InFlight => cur.id # arg[c].id
          /\ \A d \in Clients : cpc[d] = "schedule" /\ arg[d].id = arg[c].id => d = c

(* No wake-up is lost: while the scheduler thread sleeps without deadline   *)
(* and no notification is under way, it has nothing to do; while it sleeps  *)
(* with a deadline, no pending task is due before that deadline.  schedule()*)
(* and stop() notify after they have released the mutex, so this rests on   *)
(* the order of check and wait in loop().                                   *)
NotifyUnderWay == \E c \in Clients : cpc[c] \in {"notify", "stopNotify"}

NoLostWakeup ==
    ~notified /\ ~NotifyUnderWay =>
        /\ pc = "wait" => queue = {} /\ running
        /\ pc = "waitUntil" => running /\ \A t \in queue : until <= t.time

(* After cancel(id) has returned the task's function is entered at most     *)
(* once more: only when it was already past the check under the mutex.  The *)
(* unlocked second check, which a concurrent cancel() can make miss an id,  *)
(* does not bring a cancelled task back.                                    *)
CancelIsFinal == \A i \in Ids : afterCancel[i] <= 1

Starting == pc = "call" /\ pc' = "func"

(* Two starts of a periodic task are at least one interval apart, however   *)
(* late the thread woke up: a late task is not run again to catch up.       *)
StartSpacing ==
    [][Starting /\ lastStart[cur.id] # Never
          => now >= lastStart[cur.id] + cur.interval]_vars

(* After stop() has cleared the flag at most one function is still entered: *)
(* the one whose running.load() came before.  What the loop pushes back     *)
(* after stop() has emptied the queue is never run, and nothing runs once   *)
(* stop() has returned.                                                     *)
StopIsFinal ==
    /\ afterStop <= 1
    /\ pc = "done" => ~running /\ cur = NoTask

(* Neither cancel() nor stop() can be undone by what the thread was doing.  *)
EndsAreFinal == CancelIsFinal /\ StopIsFinal

(* stop() returns: the join is not waited for for ever, wherever the        *)
(* scheduler thread was when the flag was cleared.                          *)
StopReturns == cpc[Main] = "stopNotify" ~> cpc[Main] = "idle"

(* A task in the queue that becomes due within the clock's bound is started *)
(* unless it is cancelled or the scheduler is stopped (or never started).   *)
DueTaskStarts ==
    \A i \in Ids :
        (\E t \in queue : t.id = i /\ t.time <= MaxTime) ~>
            \/ lastStart[i] # Never \/ i \in cancelled \/ ~running

(* What was asked of the scheduler happens, with fair threads and a clock   *)
(* that advances: stop() returns and a due task starts.                     *)
SchedulerMakesProgress == StopReturns /\ DueTaskStarts

=============================================================================
