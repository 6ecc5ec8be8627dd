----------------------------- MODULE TaskQueue -----------------------------
(***************************************************************************)
(* What utils::ThreadPool promises its callers, without threads, locks or  *)
(* condition variables: a bounded first-in-first-out queue of tasks, each  *)
(* answering one std::future exactly once.                                 *)
(*                                                                         *)
(* future[t] is what the caller of enqueue sees of task t:                 *)
(*   "none"      not submitted yet                                         *)
(*   "rejected"  enqueue returned std::nullopt                             *)
(*   "pending"   enqueue returned a future that is not ready               *)
(*   "ready"     the packaged_task ran (a value or an exception)           *)
(*   "broken"    the packaged_task was destroyed unrun (broken_promise)    *)
(***************************************************************************)
EXTENDS Naturals, Sequences

CONSTANTS Task,     \* the packaged tasks that callers submit
          Limits,   \* the values callers pass to set_queue_limit
          SizeMax   \* std::numeric_limits<size_t>::max()

VARIABLES queue,    \* submitted tasks that have not started, oldest first
          active,   \* tasks that a thread has taken and not finished
          future,   \* what each caller holds
          limit,    \* the queue bound
          closed    \* the destructor has begun: nothing is accepted or started

vars == <<queue, active, future, limit, closed>>

Init ==
    /\ queue = <<>>
    /\ active = {}
    /\ future = [t \in Task |-> "none"]
    /\ limit = SizeMax
    /\ closed = FALSE

\* A caller submits t: it is queued unless the pool is closed or full.
Submit(t) ==
    /\ future[t] = "none"
    /\ IF closed \/ Len(queue) >= limit
       THEN /\ future' = [future EXCEPT ![t] = "rejected"]
            /\ UNCHANGED queue
       ELSE /\ future' = [future EXCEPT ![t] = "pending"]
            /\ queue' = Append(queue, t)
    /\ UNCHANGED <<active, limit, closed>>

\* The oldest task starts; an open pool starts tasks in submission order.
Start ==
    /\ ~closed
    /\ queue # <<>>
    /\ queue' = Tail(queue)
    /\ active' = active \cup {Head(queue)}
    /\ UNCHANGED <<future, limit, closed>>

\* A started task ends, and its future becomes ready, even in a closed pool.
Finish(t) ==
    /\ t \in active
    /\ active' = active \ {t}
    /\ future' = [future EXCEPT ![t] = "ready"]
    /\ UNCHANGED <<queue, limit, closed>>

\* The queued tasks are destroyed unrun.
Clear ==
    /\ queue' = <<>>
    /\ future' = [t \in Task |-> IF \E i \in 1..Len(queue) : queue[i] = t
                                 THEN "broken" ELSE future[t]]
    /\ UNCHANGED <<active, limit, closed>>

SetLimit(n) ==
    /\ limit' = n
    /\ UNCHANGED <<queue, active, future, closed>>

Close ==
    /\ closed' = TRUE
    /\ UNCHANGED <<queue, active, future, limit>>

Next ==
    \/ \E t \in Task : Submit(t) \/ Finish(t)
    \/ \E n \in Limits : SetLimit(n)
    \/ Start
    \/ Clear
    \/ Close

Spec == Init /\ [][Next]_vars

=============================================================================
