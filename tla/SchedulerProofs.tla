--------------------------- MODULE SchedulerProofs ---------------------------
(***************************************************************************)
(* Proofs about the scheduler, for any number of client threads, tasks,    *)
(* intervals and clock values.                                             *)
(***************************************************************************)
EXTENDS Scheduler, TLAPS

USE DEF KeepLooping, IsCancelled, DelayFromNow, NextTime, Pop

LEMMA FuncStartType ==
    ASSUME TypeOK, FuncStart
    PROVE  /\ lastStart' \in [Ids -> Nat \cup {Never}]
           /\ afterCancel' \in [Ids -> Nat]
           /\ afterStop' \in Nat
<1>1. /\ lastStart \in [Ids -> Nat \cup {Never}] /\ now \in Nat
      /\ afterCancel \in [Ids -> Nat] /\ afterStop \in Nat
  BY SchedulerAssumption DEF TypeOK
<1>2. lastStart' = [lastStart EXCEPT ![cur.id] = now] BY DEF FuncStart
<1>3. \/ afterCancel' = [afterCancel EXCEPT ![cur.id] = @ + 1]
      \/ afterCancel' = afterCancel
  BY DEF FuncStart
<1>4. afterStop' \in {afterStop, afterStop + 1} BY DEF FuncStart
<1>5. lastStart' \in [Ids -> Nat \cup {Never}] BY <1>1, <1>2
<1>6. afterCancel' \in [Ids -> Nat] BY <1>1, <1>3
<1>7. afterStop' \in Nat BY <1>1, <1>4
<1> QED BY <1>5, <1>6, <1>7

LEMMA TypeStep == ASSUME TypeOK, [Next]_vars PROVE TypeOK'
<1> USE SchedulerAssumption DEF TypeOK, Task, NoTask, LoopPcs, ClientPcs
<1>1. ASSUME NEW c \in Clients, NEW i \in Intervals, Every(c, i) PROVE TypeOK'
  BY <1>1 DEF Every, loopVars, history
<1>2. ASSUME NEW c \in Clients, NEW d \in Delays, Once(c, d) PROVE TypeOK'
  BY <1>2 DEF Once, loopVars, history
<1>3. ASSUME NEW c \in Clients, SchedulePush(c) PROVE TypeOK'
  BY <1>3 DEF SchedulePush, loopVars, history
<1>4. ASSUME NEW c \in Clients, ScheduleNotify(c) PROVE TypeOK'
  BY <1>4 DEF ScheduleNotify, Notify, Waiting, history
<1>5. ASSUME NEW c \in Clients, NEW i \in Ids, CancelBegin(c, i) PROVE TypeOK'
  <2>1. [id |-> i, time |-> 0, interval |-> 0] \in Task BY DEF Ids
  <2> QED BY <1>5, <2>1 DEF CancelBegin, loopVars, history
<1>6. ASSUME NEW c \in Clients, CancelEnd(c) PROVE TypeOK'
  BY <1>6 DEF CancelEnd, loopVars, history
<1>7. CASE Start BY <1>7 DEF Start, clientVars, history
<1>8. CASE StopClear BY <1>8 DEF StopClear, loopVars, history
<1>9. CASE StopNotify BY <1>9 DEF StopNotify, Notify, Waiting, history
<1>10. CASE StopJoin BY <1>10 DEF StopJoin, loopVars, history
<1>11. CASE Relock BY <1>11 DEF Relock, clientVars, history
<1>12. CASE LoopExit BY <1>12 DEF LoopExit, clientVars, history
<1>13. CASE LoopWait BY <1>13 DEF LoopWait, clientVars, history
<1>14. CASE LoopWaitUntil BY <1>14 DEF LoopWaitUntil, clientVars, history
<1>15. CASE LoopDrop BY <1>15 DEF LoopDrop, loopVars, clientVars, history
<1>16. CASE LoopPop BY <1>16 DEF LoopPop, clientVars, history
<1>17. CASE FuncAllowed BY <1>17 DEF FuncAllowed, clientVars, history
<1>18. CASE FuncStart BY <1>18, FuncStartType DEF FuncStart, clientVars
<1>19. CASE FuncSkip BY <1>19 DEF FuncSkip, clientVars, history
<1>20. CASE FuncReturn BY <1>20 DEF FuncReturn, clientVars, history
<1>21. CASE CheckAgain BY <1>21 DEF CheckAgain, clientVars, history
<1>22. CASE CheckDone BY <1>22 DEF CheckDone, clientVars, history
<1>23. CASE PushAgain BY <1>23 DEF PushAgain, clientVars, history
<1>24. CASE WakeNotified \/ WakeTimeout \/ WakeSpurious
  <2>1. WaitReturns BY <1>24, Zenon DEF WakeNotified, WakeTimeout, WakeSpurious
  <2> QED BY <2>1 DEF WaitReturns, clientVars, history
<1>25. CASE Tick BY <1>25 DEF Tick, loopVars, clientVars, history
<1>26. CASE UNCHANGED vars BY <1>26 DEF vars, loopVars, clientVars, history
<1> QED
  BY <1>1, <1>2, <1>3, <1>4, <1>5, <1>6, <1>7, <1>8, <1>9, <1>10, <1>11, <1>12,
     <1>13, <1>14, <1>15, <1>16, <1>17, <1>18, <1>19, <1>20, <1>21, <1>22, <1>23,
     <1>24, <1>25, <1>26
  DEF Next, ClientStep, MainStep, LoopStep
(***************************************************************************)
(* The parts of the inductive invariant.                                   *)
(***************************************************************************)

\* Every task comes from a call of schedule(), which took the next id.
IdsIssued ==
    /\ \A t \in queue : t.id \in Ids /\ t.id < next_id
    /\ InFlight => cur.id \in Ids /\ cur.id < next_id
    /\ \A c \in Clients : cpc[c] = "schedule" => arg[c].id \in Ids /\ arg[c].id < next_id

\* A task that loop() has popped and not yet called was not cancelled when it
\* was popped, so none of its starts came after a cancel().
CancelInv ==
    /\ CancelIsFinal
    /\ \A i \in Ids : afterCancel[i] # 0 => i \in cancelled
    /\ pc \in {"popped", "call"} => afterCancel[cur.id] = 0

\* A function that starts after stop() is the one loop() was about to call.
StopInv ==
    /\ StopIsFinal
    /\ running \/ pc \in {"none", "popped", "call"} => afterStop = 0
    /\ ~InFlight => cur = NoTask

\* Wherever a task waits to be started again, its time is an interval after
\* its last start.
Spaced(t) == lastStart[t.id] # Never => t.time >= lastStart[t.id] + t.interval

SpacingInv ==
    /\ \A i \in Ids : lastStart[i] # Never => lastStart[i] <= now
    /\ \A i \in Ids : i >= next_id => lastStart[i] = Never
    /\ \A c \in Clients : cpc[c] = "schedule" => lastStart[arg[c].id] = Never
    /\ \A t \in queue : Spaced(t)
    /\ pc \in {"popped", "call", "push"} => Spaced(cur)
    /\ pc \in {"popped", "call"} => cur.time <= now

IInv == TypeOK /\ IdsIssued /\ OneCopy /\ NoLostWakeup /\ CancelInv /\ StopInv /\ SpacingInv

LEMMA IdsStep == ASSUME TypeOK, IdsIssued, [Next]_vars PROVE IdsIssued'
<1> USE SchedulerAssumption DEF TypeOK, IdsIssued, InFlight, Task, NoTask, Ids
<1>1. ASSUME NEW c \in Clients, NEW i \in Intervals, Every(c, i) PROVE IdsIssued'
  <2>1. next_id' = next_id + 1 /\ next_id \in Ids /\ arg'[c].id = next_id
    BY <1>1 DEF Every
  <2>2. \A e \in Clients \ {c} : cpc'[e] = cpc[e] /\ arg'[e] = arg[e]
    BY <1>1 DEF Every
  <2>3. queue' = queue /\ pc' = pc /\ cur' = cur BY <1>1 DEF Every, loopVars
  <2>4. ASSUME NEW e \in Clients, cpc'[e] = "schedule"
        PROVE  arg'[e].id \in Ids /\ arg'[e].id < next_id'
    <3>1. CASE e = c BY <2>1, <3>1
    <3>2. CASE e # c
      <4>1. arg'[e] = arg[e] /\ cpc[e] = "schedule" BY <2>2, <2>4, <3>2
      <4>2. arg[e].id \in Ids /\ arg[e].id < next_id BY <4>1
      <4> QED BY <2>1, <4>1, <4>2
    <3> QED BY <3>1, <3>2
  <2>5. \A n \in Ids : n < next_id => n < next_id' BY <2>1
  <2> QED BY <2>3, <2>4, <2>5
<1>2. ASSUME NEW c \in Clients, NEW d \in Delays, Once(c, d) PROVE IdsIssued'
  <2>1. next_id' = next_id + 1 /\ next_id \in Ids /\ arg'[c].id = next_id
    BY <1>2 DEF Once
  <2>2. \A e \in Clients \ {c} : cpc'[e] = cpc[e] /\ arg'[e] = arg[e]
    BY <1>2 DEF Once
  <2>3. queue' = queue /\ pc' = pc /\ cur' = cur BY <1>2 DEF Once, loopVars
  <2>4. ASSUME NEW e \in Clients, cpc'[e] = "schedule"
        PROVE  arg'[e].id \in Ids /\ arg'[e].id < next_id'
    <3>1. CASE e = c BY <2>1, <3>1
    <3>2. CASE e # c
      <4>1. arg'[e] = arg[e] /\ cpc[e] = "schedule" BY <2>2, <2>4, <3>2
      <4>2. arg[e].id \in Ids /\ arg[e].id < next_id BY <4>1
      <4> QED BY <2>1, <4>1, <4>2
    <3> QED BY <3>1, <3>2
  <2>5. \A n \in Ids : n < next_id => n < next_id' BY <2>1
  <2> QED BY <2>3, <2>4, <2>5
<1>3. ASSUME NEW c \in Clients, SchedulePush(c) PROVE IdsIssued'
  BY <1>3 DEF SchedulePush, loopVars, history
<1>4. ASSUME NEW c \in Clients, ScheduleNotify(c) PROVE IdsIssued'
  BY <1>4 DEF ScheduleNotify, Notify, Waiting, history
<1>5. ASSUME NEW c \in Clients, NEW i \in Ids, CancelBegin(c, i) PROVE IdsIssued'
  BY <1>5 DEF CancelBegin, loopVars, history
<1>6. ASSUME NEW c \in Clients, CancelEnd(c) PROVE IdsIssued'
  BY <1>6 DEF CancelEnd, loopVars, history
<1>7. CASE Start BY <1>7 DEF Start, clientVars, history
<1>8. CASE StopClear BY <1>8 DEF StopClear, loopVars, history
<1>9. CASE StopNotify BY <1>9 DEF StopNotify, Notify, Waiting, history
<1>10. CASE StopJoin BY <1>10 DEF StopJoin, loopVars, history
<1>11. CASE Relock BY <1>11 DEF Relock, clientVars, history
<1>12. CASE LoopExit BY <1>12 DEF LoopExit, clientVars, history
<1>13. CASE LoopWait BY <1>13 DEF LoopWait, clientVars, history
<1>14. CASE LoopWaitUntil BY <1>14 DEF LoopWaitUntil, clientVars, history, Top
<1>15. CASE LoopDrop BY <1>15 DEF LoopDrop, loopVars, clientVars, history, Top
<1>16. CASE LoopPop BY <1>16 DEF LoopPop, clientVars, history, Top
<1>17. CASE FuncAllowed BY <1>17 DEF FuncAllowed, clientVars, history
<1>18. CASE FuncStart BY <1>18 DEF FuncStart, clientVars, CancelReturned
<1>19. CASE FuncSkip BY <1>19 DEF FuncSkip, clientVars, history
<1>20. CASE FuncReturn BY <1>20 DEF FuncReturn, clientVars, history
<1>21. CASE CheckAgain BY <1>21 DEF CheckAgain, clientVars, history
<1>22. CASE CheckDone BY <1>22 DEF CheckDone, clientVars, history
<1>23. CASE PushAgain BY <1>23 DEF PushAgain, clientVars, history
<1>24. CASE WakeNotified \/ WakeTimeout \/ WakeSpurious
  <2>1. WaitReturns BY <1>24, Zenon DEF WakeNotified, WakeTimeout, WakeSpurious
  <2> QED BY <2>1 DEF WaitReturns, clientVars, history
<1>25. CASE Tick BY <1>25 DEF Tick, loopVars, clientVars, history
<1>26. CASE UNCHANGED vars BY <1>26 DEF vars, loopVars, clientVars, history
<1> QED
  BY <1>1, <1>2, <1>3, <1>4, <1>5, <1>6, <1>7, <1>8, <1>9, <1>10, <1>11, 
     <1>12, <1>13, <1>14, <1>15, <1>16, <1>17, <1>18, <1>19, <1>20, <1>21, 
     <1>22, <1>23, <1>24, <1>25, <1>26
  DEF Next, ClientStep, MainStep, LoopStep

LEMMA OneCopyStep == ASSUME TypeOK, IdsIssued, OneCopy, [Next]_vars PROVE OneCopy'
<1> USE DEF TypeOK, IdsIssued, OneCopy, InFlight, Task
<1>1. ASSUME NEW c \in Clients, NEW i \in Intervals, Every(c, i) PROVE OneCopy'
  BY <1>1 DEF Every, loopVars, history
<1>2. ASSUME NEW c \in Clients, NEW d \in Delays, Once(c, d) PROVE OneCopy'
  BY <1>2 DEF Once, loopVars, history
<1>3. ASSUME NEW c \in Clients, SchedulePush(c) PROVE OneCopy'
  BY <1>3 DEF SchedulePush, loopVars, history
<1>4. ASSUME NEW c \in Clients, ScheduleNotify(c) PROVE OneCopy'
  BY <1>4 DEF ScheduleNotify, Notify, Waiting, history
<1>5. ASSUME NEW c \in Clients, NEW i \in Ids, CancelBegin(c, i) PROVE OneCopy'
  BY <1>5 DEF CancelBegin, loopVars, history
<1>6. ASSUME NEW c \in Clients, CancelEnd(c) PROVE OneCopy'
  BY <1>6 DEF CancelEnd, loopVars, history
<1>7. CASE Start BY <1>7 DEF Start, clientVars, history
<1>8. CASE StopClear BY <1>8 DEF StopClear, loopVars, history
<1>9. CASE StopNotify BY <1>9 DEF StopNotify, Notify, Waiting, history
<1>10. CASE StopJoin BY <1>10 DEF StopJoin, loopVars, history
<1>11. CASE Relock BY <1>11 DEF Relock, clientVars, history
<1>12. CASE LoopExit BY <1>12 DEF LoopExit, clientVars, history
<1>13. CASE LoopWait BY <1>13 DEF LoopWait, clientVars, history
<1>14. CASE LoopWaitUntil BY <1>14 DEF LoopWaitUntil, clientVars, history, Top
<1>15. CASE LoopDrop BY <1>15 DEF LoopDrop, loopVars, clientVars, history, Top
<1>16. CASE LoopPop BY <1>16 DEF LoopPop, clientVars, history, Top
<1>17. CASE FuncAllowed BY <1>17 DEF FuncAllowed, clientVars, history
<1>18. CASE FuncStart BY <1>18 DEF FuncStart, clientVars, CancelReturned
<1>19. CASE FuncSkip BY <1>19 DEF FuncSkip, clientVars, history
<1>20. CASE FuncReturn BY <1>20 DEF FuncReturn, clientVars, history
<1>21. CASE CheckAgain BY <1>21 DEF CheckAgain, clientVars, history
<1>22. CASE CheckDone BY <1>22 DEF CheckDone, clientVars, history
<1>23. CASE PushAgain BY <1>23 DEF PushAgain, clientVars, history
<1>24. CASE WakeNotified \/ WakeTimeout \/ WakeSpurious
  <2>1. WaitReturns BY <1>24, Zenon DEF WakeNotified, WakeTimeout, WakeSpurious
  <2> QED BY <2>1 DEF WaitReturns, clientVars, history
<1>25. CASE Tick BY <1>25 DEF Tick, loopVars, clientVars, history
<1>26. CASE UNCHANGED vars BY <1>26 DEF vars, loopVars, clientVars, history
<1> QED
  BY <1>1, <1>2, <1>3, <1>4, <1>5, <1>6, <1>7, <1>8, <1>9, <1>10, <1>11, 
     <1>12, <1>13, <1>14, <1>15, <1>16, <1>17, <1>18, <1>19, <1>20, <1>21, 
     <1>22, <1>23, <1>24, <1>25, <1>26
  DEF Next, ClientStep, MainStep, LoopStep

LEMMA WakeupStep == ASSUME TypeOK, NoLostWakeup, [Next]_vars PROVE NoLostWakeup'
<1> USE DEF TypeOK, NoLostWakeup, NotifyUnderWay, ClientPcs, LoopPcs
<1>1. ASSUME NEW c \in Clients, NEW i \in Intervals, Every(c, i) PROVE NoLostWakeup'
  BY <1>1 DEF Every, loopVars, history
<1>2. ASSUME NEW c \in Clients, NEW d \in Delays, Once(c, d) PROVE NoLostWakeup'
  BY <1>2 DEF Once, loopVars, history
<1>3. ASSUME NEW c \in Clients, SchedulePush(c) PROVE NoLostWakeup'
  BY <1>3 DEF SchedulePush, loopVars, history
<1>4. ASSUME NEW c \in Clients, ScheduleNotify(c) PROVE NoLostWakeup'
  BY <1>4 DEF ScheduleNotify, Notify, Waiting, history
<1>5. ASSUME NEW c \in Clients, NEW i \in Ids, CancelBegin(c, i) PROVE NoLostWakeup'
  BY <1>5 DEF CancelBegin, loopVars, history
<1>6. ASSUME NEW c \in Clients, CancelEnd(c) PROVE NoLostWakeup'
  BY <1>6 DEF CancelEnd, loopVars, history
<1>7. CASE Start BY <1>7 DEF Start, clientVars, history
<1>8. CASE StopClear BY <1>8 DEF StopClear, loopVars, history, Clients
<1>9. CASE StopNotify BY <1>9 DEF StopNotify, Notify, Waiting, history
<1>10. CASE StopJoin BY <1>10 DEF StopJoin, loopVars, history
<1>11. CASE Relock BY <1>11 DEF Relock, clientVars, history
<1>12. CASE LoopExit BY <1>12 DEF LoopExit, clientVars, history
<1>13. CASE LoopWait BY <1>13 DEF LoopWait, clientVars, history
<1>14. CASE LoopWaitUntil BY <1>14 DEF LoopWaitUntil, clientVars, history, Top
<1>15. CASE LoopDrop BY <1>15 DEF LoopDrop, loopVars, clientVars, history, Top
<1>16. CASE LoopPop BY <1>16 DEF LoopPop, clientVars, history, Top
<1>17. CASE FuncAllowed BY <1>17 DEF FuncAllowed, clientVars, history
<1>18. CASE FuncStart BY <1>18 DEF FuncStart, clientVars, CancelReturned
<1>19. CASE FuncSkip BY <1>19 DEF FuncSkip, clientVars, history
<1>20. CASE FuncReturn BY <1>20 DEF FuncReturn, clientVars, history
<1>21. CASE CheckAgain BY <1>21 DEF CheckAgain, clientVars, history
<1>22. CASE CheckDone BY <1>22 DEF CheckDone, clientVars, history
<1>23. CASE PushAgain BY <1>23 DEF PushAgain, clientVars, history
<1>24. CASE WakeNotified \/ WakeTimeout \/ WakeSpurious
  <2>1. WaitReturns BY <1>24, Zenon DEF WakeNotified, WakeTimeout, WakeSpurious
  <2> QED BY <2>1 DEF WaitReturns, clientVars, history
<1>25. CASE Tick BY <1>25 DEF Tick, loopVars, clientVars, history
<1>26. CASE UNCHANGED vars BY <1>26 DEF vars, loopVars, clientVars, history
<1> QED
  BY <1>1, <1>2, <1>3, <1>4, <1>5, <1>6, <1>7, <1>8, <1>9, <1>10, <1>11, 
     <1>12, <1>13, <1>14, <1>15, <1>16, <1>17, <1>18, <1>19, <1>20, <1>21, 
     <1>22, <1>23, <1>24, <1>25, <1>26
  DEF Next, ClientStep, MainStep, LoopStep

LEMMA CancelStep == ASSUME TypeOK, IdsIssued, CancelInv, [Next]_vars PROVE CancelInv'
<1> USE DEF TypeOK, IdsIssued, CancelInv, CancelIsFinal, InFlight
<1>1. ASSUME NEW c \in Clients, NEW i \in Intervals, Every(c, i) PROVE CancelInv'
  BY <1>1 DEF Every, loopVars, history
<1>2. ASSUME NEW c \in Clients, NEW d \in Delays, Once(c, d) PROVE CancelInv'
  BY <1>2 DEF Once, loopVars, history
<1>3. ASSUME NEW c \in Clients, SchedulePush(c) PROVE CancelInv'
  BY <1>3 DEF SchedulePush, loopVars, history
<1>4. ASSUME NEW c \in Clients, ScheduleNotify(c) PROVE CancelInv'
  BY <1>4 DEF ScheduleNotify, Notify, Waiting, history
<1>5. ASSUME NEW c \in Clients, NEW i \in Ids, CancelBegin(c, i) PROVE CancelInv'
  BY <1>5 DEF CancelBegin, loopVars, history
<1>6. ASSUME NEW c \in Clients, CancelEnd(c) PROVE CancelInv'
  BY <1>6 DEF CancelEnd, loopVars, history
<1>7. CASE Start BY <1>7 DEF Start, clientVars, history
<1>8. CASE StopClear BY <1>8 DEF StopClear, loopVars, history
<1>9. CASE StopNotify BY <1>9 DEF StopNotify, Notify, Waiting, history
<1>10. CASE StopJoin BY <1>10 DEF StopJoin, loopVars, history
<1>11. CASE Relock BY <1>11 DEF Relock, clientVars, history
<1>12. CASE LoopExit BY <1>12 DEF LoopExit, clientVars, history
<1>13. CASE LoopWait BY <1>13 DEF LoopWait, clientVars, history
<1>14. CASE LoopWaitUntil BY <1>14 DEF LoopWaitUntil, clientVars, history, Top
<1>15. CASE LoopDrop BY <1>15 DEF LoopDrop, loopVars, clientVars, history, Top
<1>16. CASE LoopPop BY <1>16 DEF LoopPop, clientVars, history, Top
<1>17. CASE FuncAllowed BY <1>17 DEF FuncAllowed, clientVars, history
<1>18. CASE FuncStart BY <1>18 DEF FuncStart, clientVars, CancelReturned
<1>19. CASE FuncSkip BY <1>19 DEF FuncSkip, clientVars, history
<1>20. CASE FuncReturn BY <1>20 DEF FuncReturn, clientVars, history
<1>21. CASE CheckAgain BY <1>21 DEF CheckAgain, clientVars, history
<1>22. CASE CheckDone BY <1>22 DEF CheckDone, clientVars, history
<1>23. CASE PushAgain BY <1>23 DEF PushAgain, clientVars, history
<1>24. CASE WakeNotified \/ WakeTimeout \/ WakeSpurious
  <2>1. WaitReturns BY <1>24, Zenon DEF WakeNotified, WakeTimeout, WakeSpurious
  <2> QED BY <2>1 DEF WaitReturns, clientVars, history
<1>25. CASE Tick BY <1>25 DEF Tick, loopVars, clientVars, history
<1>26. CASE UNCHANGED vars BY <1>26 DEF vars, loopVars, clientVars, history
<1> QED
  BY <1>1, <1>2, <1>3, <1>4, <1>5, <1>6, <1>7, <1>8, <1>9, <1>10, <1>11, 
     <1>12, <1>13, <1>14, <1>15, <1>16, <1>17, <1>18, <1>19, <1>20, <1>21, 
     <1>22, <1>23, <1>24, <1>25, <1>26
  DEF Next, ClientStep, MainStep, LoopStep

LEMMA StopStep == ASSUME TypeOK, StopInv, [Next]_vars PROVE StopInv'
<1> USE DEF TypeOK, StopInv, StopIsFinal, InFlight
<1>1. ASSUME NEW c \in Clients, NEW i \in Intervals, Every(c, i) PROVE StopInv'
  BY <1>1 DEF Every, loopVars, history
<1>2. ASSUME NEW c \in Clients, NEW d \in Delays, Once(c, d) PROVE StopInv'
  BY <1>2 DEF Once, loopVars, history
<1>3. ASSUME NEW c \in Clients, SchedulePush(c) PROVE StopInv'
  BY <1>3 DEF SchedulePush, loopVars, history
<1>4. ASSUME NEW c \in Clients, ScheduleNotify(c) PROVE StopInv'
  BY <1>4 DEF ScheduleNotify, Notify, Waiting, history
<1>5. ASSUME NEW c \in Clients, NEW i \in Ids, CancelBegin(c, i) PROVE StopInv'
  BY <1>5 DEF CancelBegin, loopVars, history
<1>6. ASSUME NEW c \in Clients, CancelEnd(c) PROVE StopInv'
  BY <1>6 DEF CancelEnd, loopVars, history
<1>7. CASE Start BY <1>7 DEF Start, clientVars, history
<1>8. CASE StopClear BY <1>8 DEF StopClear, loopVars, history
<1>9. CASE StopNotify BY <1>9 DEF StopNotify, Notify, Waiting, history
<1>10. CASE StopJoin BY <1>10 DEF StopJoin, loopVars, history
<1>11. CASE Relock BY <1>11 DEF Relock, clientVars, history
<1>12. CASE LoopExit BY <1>12 DEF LoopExit, clientVars, history
<1>13. CASE LoopWait BY <1>13 DEF LoopWait, clientVars, history
<1>14. CASE LoopWaitUntil BY <1>14 DEF LoopWaitUntil, clientVars, history, Top
<1>15. CASE LoopDrop BY <1>15 DEF LoopDrop, loopVars, clientVars, history, Top
<1>16. CASE LoopPop BY <1>16 DEF LoopPop, clientVars, history, Top
<1>17. CASE FuncAllowed BY <1>17 DEF FuncAllowed, clientVars, history
<1>18. CASE FuncStart BY <1>18 DEF FuncStart, clientVars, CancelReturned
<1>19. CASE FuncSkip BY <1>19 DEF FuncSkip, clientVars, history
<1>20. CASE FuncReturn BY <1>20 DEF FuncReturn, clientVars, history
<1>21. CASE CheckAgain BY <1>21 DEF CheckAgain, clientVars, history
<1>22. CASE CheckDone BY <1>22 DEF CheckDone, clientVars, history
<1>23. CASE PushAgain BY <1>23 DEF PushAgain, clientVars, history
<1>24. CASE WakeNotified \/ WakeTimeout \/ WakeSpurious
  <2>1. WaitReturns BY <1>24, Zenon DEF WakeNotified, WakeTimeout, WakeSpurious
  <2>2. Waiting BY <1>24, Zenon DEF WakeNotified, WakeTimeout, WakeSpurious, Waiting
  <2> QED BY <2>1, <2>2 DEF Waiting, WaitReturns, clientVars, history
<1>25. CASE Tick BY <1>25 DEF Tick, loopVars, clientVars, history
<1>26. CASE UNCHANGED vars BY <1>26 DEF vars, loopVars, clientVars, history
<1> QED
  BY <1>1, <1>2, <1>3, <1>4, <1>5, <1>6, <1>7, <1>8, <1>9, <1>10, <1>11, 
     <1>12, <1>13, <1>14, <1>15, <1>16, <1>17, <1>18, <1>19, <1>20, <1>21, 
     <1>22, <1>23, <1>24, <1>25, <1>26
  DEF Next, ClientStep, MainStep, LoopStep

LEMMA SpacingStep == ASSUME TypeOK, IdsIssued, OneCopy, SpacingInv, [Next]_vars PROVE SpacingInv'
<1> USE SchedulerAssumption DEF TypeOK, IdsIssued, OneCopy, SpacingInv, Spaced, InFlight, Task, Never, Ids
<1>1. ASSUME NEW c \in Clients, NEW i \in Intervals, Every(c, i) PROVE SpacingInv'
  <2>1. next_id' = next_id + 1 /\ next_id \in Ids /\ arg'[c].id = next_id
    BY <1>1 DEF Every
  <2>2. \A e \in Clients \ {c} : cpc'[e] = cpc[e] /\ arg'[e] = arg[e]
    BY <1>1 DEF Every
  <2>3. queue' = queue /\ pc' = pc /\ cur' = cur /\ now' = now /\ lastStart' = lastStart
    BY <1>1 DEF Every, loopVars, history
  <2>4. ASSUME NEW e \in Clients, cpc'[e] = "schedule" PROVE lastStart[arg'[e].id] = Never
    <3>1. CASE e = c BY <2>1, <3>1, SMTT(30)
    <3>2. CASE e # c
      <4>1. arg'[e] = arg[e] /\ cpc[e] = "schedule" BY <2>2, <2>4, <3>2
      <4> QED BY <4>1
    <3> QED BY <3>1, <3>2
  <2>5. \A n \in Ids : n >= next_id' => lastStart[n] = Never BY <2>1
  <2> QED BY <2>3, <2>4, <2>5
<1>2. ASSUME NEW c \in Clients, NEW d \in Delays, Once(c, d) PROVE SpacingInv'
  <2>1. next_id' = next_id + 1 /\ next_id \in Ids /\ arg'[c].id = next_id
    BY <1>2 DEF Once
  <2>2. \A e \in Clients \ {c} : cpc'[e] = cpc[e] /\ arg'[e] = arg[e]
    BY <1>2 DEF Once
  <2>3. queue' = queue /\ pc' = pc /\ cur' = cur /\ now' = now /\ lastStart' = lastStart
    BY <1>2 DEF Once, loopVars, history
  <2>4. ASSUME NEW e \in Clients, cpc'[e] = "schedule" PROVE lastStart[arg'[e].id] = Never
    <3>1. CASE e = c BY <2>1, <3>1
    <3>2. CASE e # c
      <4>1. arg'[e] = arg[e] /\ cpc[e] = "schedule" BY <2>2, <2>4, <3>2
      <4> QED BY <4>1
    <3> QED BY <3>1, <3>2
  <2>5. \A n \in Ids : n >= next_id' => lastStart[n] = Never BY <2>1, SMTT(30)
  <2> QED BY <2>3, <2>4, <2>5
<1>3. ASSUME NEW c \in Clients, SchedulePush(c) PROVE SpacingInv'
  BY <1>3 DEF SchedulePush, loopVars, history
<1>4. ASSUME NEW c \in Clients, ScheduleNotify(c) PROVE SpacingInv'
  BY <1>4 DEF ScheduleNotify, Notify, Waiting, history
<1>5. ASSUME NEW c \in Clients, NEW i \in Ids, CancelBegin(c, i) PROVE SpacingInv'
  BY <1>5 DEF CancelBegin, loopVars, history
<1>6. ASSUME NEW c \in Clients, CancelEnd(c) PROVE SpacingInv'
  BY <1>6 DEF CancelEnd, loopVars, history
<1>7. CASE Start BY <1>7 DEF Start, clientVars, history
<1>8. CASE StopClear BY <1>8 DEF StopClear, loopVars, history
<1>9. CASE StopNotify BY <1>9 DEF StopNotify, Notify, Waiting, history
<1>10. CASE StopJoin BY <1>10 DEF StopJoin, loopVars, history
<1>11. CASE Relock BY <1>11 DEF Relock, clientVars, history
<1>12. CASE LoopExit BY <1>12 DEF LoopExit, clientVars, history
<1>13. CASE LoopWait BY <1>13 DEF LoopWait, clientVars, history
<1>14. CASE LoopWaitUntil BY <1>14 DEF LoopWaitUntil, clientVars, history, Top
<1>15. CASE LoopDrop BY <1>15 DEF LoopDrop, loopVars, clientVars, history, Top
<1>16. CASE LoopPop BY <1>16 DEF LoopPop, clientVars, history, Top
<1>17. CASE FuncAllowed BY <1>17 DEF FuncAllowed, clientVars, history
<1>18. CASE FuncStart BY <1>18 DEF FuncStart, clientVars, CancelReturned
<1>19. CASE FuncSkip BY <1>19 DEF FuncSkip, clientVars, history
<1>20. CASE FuncReturn BY <1>20 DEF FuncReturn, clientVars, history
<1>21. CASE CheckAgain BY <1>21 DEF CheckAgain, clientVars, history
<1>22. CASE CheckDone BY <1>22 DEF CheckDone, clientVars, history
<1>23. CASE PushAgain BY <1>23 DEF PushAgain, clientVars, history
<1>24. CASE WakeNotified \/ WakeTimeout \/ WakeSpurious
  <2>1. WaitReturns BY <1>24, Zenon DEF WakeNotified, WakeTimeout, WakeSpurious
  <2> QED BY <2>1 DEF WaitReturns, clientVars, history
<1>25. CASE Tick BY <1>25 DEF Tick, loopVars, clientVars, history
<1>26. CASE UNCHANGED vars BY <1>26 DEF vars, loopVars, clientVars, history
<1> QED
  BY <1>1, <1>2, <1>3, <1>4, <1>5, <1>6, <1>7, <1>8, <1>9, <1>10, <1>11, 
     <1>12, <1>13, <1>14, <1>15, <1>16, <1>17, <1>18, <1>19, <1>20, <1>21, 
     <1>22, <1>23, <1>24, <1>25, <1>26
  DEF Next, ClientStep, MainStep, LoopStep

-----------------------------------------------------------------------------
LEMMA InitIInv == Init => IInv
<1> SUFFICES ASSUME Init PROVE IInv OBVIOUS
<1>1. TypeOK
  <2>1. cur \in Task /\ arg \in [Clients -> Task] BY DEF Init, Task, NoTask
  <2>2. lastStart \in [Ids -> Nat \cup {Never}] BY DEF Init
  <2>3. next_id \in 1..(MaxId + 1) /\ now \in 0..MaxTime BY SchedulerAssumption DEF Init
  <2> QED BY <2>1, <2>2, <2>3 DEF Init, TypeOK, LoopPcs, ClientPcs
<1>2. IdsIssued /\ OneCopy BY DEF Init, IdsIssued, OneCopy, InFlight
<1>3. NoLostWakeup BY DEF Init, NoLostWakeup
<1>4. CancelInv BY DEF Init, CancelInv, CancelIsFinal
<1>5. StopInv BY DEF Init, StopInv, StopIsFinal
<1>6. SpacingInv BY DEF Init, SpacingInv
<1> QED BY <1>1, <1>2, <1>3, <1>4, <1>5, <1>6 DEF IInv

LEMMA StepIInv == IInv /\ [Next]_vars => IInv'
BY TypeStep, IdsStep, OneCopyStep, WakeupStep, CancelStep, StopStep, SpacingStep DEF IInv

LEMMA AlwaysIInv == Spec => []IInv
BY InitIInv, StepIInv, PTL DEF Spec

(* The fields of the scheduler and the locals of its threads keep their     *)
(* types in every behaviour of scheduler.cpp.                               *)
THEOREM SchedulerTypeOK == Spec => []TypeOK
<1>1. IInv => TypeOK BY DEF IInv
<1> QED BY <1>1, AlwaysIInv, PTL

(* A task is never in two places: schedule() pushes the task it created and *)
(* loop() pushes back only the one it popped.                               *)
THEOREM SchedulerOneCopy == Spec => []OneCopy
<1>1. IInv => OneCopy BY DEF IInv
<1> QED BY <1>1, AlwaysIInv, PTL

(* loop() never sleeps past a task or a stop(), although schedule() and     *)
(* stop() notify outside the mutex.                                         *)
THEOREM SchedulerNoLostWakeup == Spec => []NoLostWakeup
<1>1. IInv => NoLostWakeup BY DEF IInv
<1> QED BY <1>1, AlwaysIInv, PTL

(* After cancel() has returned its task starts at most once more, whatever  *)
(* the unlocked read of the cancelled set returns.                          *)
THEOREM SchedulerCancelIsFinal == Spec => []CancelIsFinal
<1>1. IInv => CancelIsFinal BY DEF IInv, CancelInv
<1> QED BY <1>1, AlwaysIInv, PTL

(* After stop() has cleared the flag at most one function is entered, and   *)
(* none once loop() has ended.                                              *)
THEOREM SchedulerStopIsFinal == Spec => []StopIsFinal
<1>1. IInv => StopIsFinal BY DEF IInv, StopInv
<1> QED BY <1>1, AlwaysIInv, PTL

(* Both ends are final: of a task and of the scheduler.                     *)
THEOREM SchedulerEndsAreFinal == Spec => []EndsAreFinal
<1>1. CancelIsFinal /\ StopIsFinal => EndsAreFinal BY DEF EndsAreFinal
<1> QED BY <1>1, SchedulerCancelIsFinal, SchedulerStopIsFinal, PTL

LEMMA SpacingOfStart ==
    ASSUME IInv, pc = "call", lastStart[cur.id] # Never
    PROVE  now >= lastStart[cur.id] + cur.interval
<1>1. Spaced(cur) /\ cur.time <= now
  BY DEF IInv, SpacingInv
<1>2. now \in Nat /\ cur.time \in Nat /\ cur.interval \in Nat /\ lastStart[cur.id] \in Nat
  BY SchedulerAssumption DEF IInv, TypeOK, Task, IdsIssued, InFlight
<1> QED BY <1>1, <1>2 DEF Spaced

(* A periodic task is never started again before an interval has passed     *)
(* since its last start: loop() computes the next time after the function.  *)
THEOREM SchedulerStartSpacing == Spec => StartSpacing
<1> DEFINE A == Starting /\ lastStart[cur.id] # Never
                  => now >= lastStart[cur.id] + cur.interval
<1>1. IInv => [A]_vars BY SpacingOfStart DEF Starting
<1> QED BY <1>1, AlwaysIInv, PTL DEF StartSpacing

=============================================================================
