------------------------------ MODULE JobQueue ------------------------------
(***************************************************************************)
(* What ThreadPool (daemon/src/core/thread_pool.cpp) promises to those who *)
(* enqueue: jobs are begun in the order in which they were accepted, each  *)
(* at most once; an accepted job is lost only when the pool is closed, and *)
(* none is begun after that.                                               *)
(***************************************************************************)
EXTENDS Naturals, Sequences

CONSTANT Job     \* the jobs that can be given to the pool

VARIABLES
    open,      \* the pool accepts jobs
    pending,   \* accepted and not begun, oldest first
    active,    \* begun and not finished
    finished   \* ran to the end

qvars == <<open, pending, active, finished>>

Init ==
    /\ open = TRUE
    /\ pending = <<>>
    /\ active = {}
    /\ finished = {}

Accept(j) ==
    /\ open
    /\ j \notin active \cup finished
    /\ \A n \in 1..Len(pending) : pending[n] # j
    /\ pending' = Append(pending, j)
    /\ UNCHANGED <<open, active, finished>>

Begin ==
    /\ open
    /\ pending # <<>>
    /\ active' = active \cup {Head(pending)}
    /\ pending' = Tail(pending)
    /\ UNCHANGED <<open, finished>>

Finish(j) ==
    /\ j \in active
    /\ active' = active \ {j}
    /\ finished' = finished \cup {j}
    /\ UNCHANGED <<open, pending>>

Close ==
    /\ open' = FALSE
    /\ pending' = <<>>
    /\ UNCHANGED <<active, finished>>

Next == (\E j \in Job : Accept(j)) \/ Begin \/ (\E j \in active : Finish(j)) \/ Close

Spec == Init /\ [][Next]_qvars

=============================================================================
