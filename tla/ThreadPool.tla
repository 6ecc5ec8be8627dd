----------------------------- MODULE ThreadPool -----------------------------
(***************************************************************************)
(* utils::ThreadPool (network/threadpool.hpp, network/threadpool.cpp).     *)
(*                                                                         *)
(* Every critical section of queue_mutex is one action; what the code does *)
(* after the unlock (the notify_one calls, the unlocked tasks.empty() of   *)
(* line 53, the task body) are steps of their own.  The one condition      *)
(* variable is the set of threads whose pc is "asleep".                    *)
(*                                                                         *)
(* Threads: the workers; clients, the threads that share the pool; and the *)
(* owner, the one thread that resizes and destroys it (workers is a plain  *)
(* vector, so the code allows no second one, and allows the destructor     *)
(* only when no client is inside a call).                                  *)
(***************************************************************************)
EXTENDS Integers, Sequences, FiniteSets, Functions

CONSTANTS Worker,   \* thread objects that add_threads may create
          Client,   \* threads that call enqueue, clean_queue, set_queue_limit
          Waiter,   \* the clients that also call wait()
          Task,     \* the packaged tasks
          NoTask,   \* an empty std::function
          Limits,   \* arguments of set_queue_limit
          SizeMax   \* std::numeric_limits<size_t>::max()

ASSUME ThreadAssumption ==
    /\ Client \cap Worker = {}
    /\ Waiter \subseteq Client
    /\ IsFiniteSet(Worker)

ASSUME TaskAssumption == NoTask \notin Task

ASSUME LimitAssumption == SizeMax \in Nat /\ Limits \subseteq 0..SizeMax

VARIABLES
    tasks,          \* std::queue of tasks, oldest first
    stop,           \* the destructor has begun
    stop_workers,   \* workers still to kill: tickets of remove_threads
    m_queue_limit,
    workers,        \* std::vector<std::thread>
    pc,             \* where each client and each worker is
    held,           \* each worker's local variable task
    owner,          \* where the owner is
    toNotify,       \* notify_one calls remove_threads has yet to make
    future          \* each task's std::future, as in TaskQueue

vars == <<tasks, stop, stop_workers, m_queue_limit, workers, pc, held, owner,
          toNotify, future>>

Thread == Client \cup Worker

(***************************************************************************)
(* Program points.  "notifying": the lock is released and condition's      *)
(* notify_one comes next (enqueue line 49, worker line 53).  "ready": about *)
(* to take the lock and evaluate the wait predicate.  "popped": a worker   *)
(* has released the lock with a task and comes to line 53; "raced": the    *)
(* same, and another thread has written tasks since, so that the unlocked  *)
(* read of line 53 is a data race.                                         *)
(***************************************************************************)
ClientPC == {"idle", "notifying", "asleep", "ready"}
WorkerPC == {"none", "ready", "asleep", "popped", "raced", "notifying",
             "running", "exited"}
OwnerPC  == {"idle", "removing", "stopping", "destroying", "destroyed"}
Outcome  == {"none", "rejected", "pending", "ready", "broken"}

Busy == {"popped", "raced", "notifying", "running"}   \* a worker with a task
Live(w) == pc[w] \notin {"none", "exited"}           \* started and not ended
LiveWorkers == {w \in Worker : Live(w)}

\* The pool object may be used: its destructor has not begun.
Alive == owner \in {"idle", "removing"}

-----------------------------------------------------------------------------
\* Mutant of Woken: the notification is left out.
WokenNobody(p) == {p}

\* condition.notify_one(): the pcs that can follow from p, one per sleeper.
Woken(p) ==
    LET sleepers == {th \in Thread : p[th] = "asleep"}
    IN  IF sleepers = {} THEN {p}
        ELSE {[p EXCEPT ![th] = "ready"] : th \in sleepers}

\* Mutant of AllWoken: notify_one where the destructor calls notify_all.
OneWoken(p) == CHOOSE q \in Woken(p) : TRUE

\* condition.notify_all()
AllWoken(p) == [th \in Thread |-> IF p[th] = "asleep" THEN "ready" ELSE p[th]]

\* A write of tasks makes the coming line-53 read of every popped worker a race.
Raced(p) == [th \in Thread |-> IF p[th] = "popped" THEN "raced" ELSE p[th]]

\* Mutant of QueueFull: the bound is off by one.
QueueOverfull == Len(tasks) > m_queue_limit

QueueFull == Len(tasks) >= m_queue_limit

\* Mutant of HasTicket: the worker does not test stop_workers.
AlwaysTicket == TRUE

\* A worker has to end: remove_threads left a ticket.
HasTicket == stop_workers > 0

\* Mutant of Capped: more workers may be asked to end than there are.
Uncapped(count) == count

\* remove_threads ends at most the workers there are.
Capped(count) == IF count > Len(workers) THEN Len(workers) ELSE count

\* Mutant of AllJoined: the destructor does not wait for the workers.
NotJoined == TRUE

\* Every join() of the destructor has returned.
AllJoined == \A w \in Range(workers) : pc[w] = "exited"

\* Mutant of BreakQueued: the task at the front survives the queue.
BreakTail == [t \in Task |-> IF tasks # <<>> /\ t \in Range(Tail(tasks))
                             THEN "broken" ELSE future[t]]

\* The tasks of the queue are destroyed: their futures become broken promises.
BreakQueued == [t \in Task |-> IF t \in Range(tasks) THEN "broken" ELSE future[t]]

Init ==
    /\ tasks = <<>>
    /\ stop = FALSE
    /\ stop_workers = 0
    /\ m_queue_limit = SizeMax
    /\ workers = <<>>
    /\ pc = [th \in Thread |-> IF th \in Client THEN "idle" ELSE "none"]
    /\ held = [w \in Worker |-> NoTask]
    /\ owner = "idle"
    /\ toNotify = 0
    /\ future = [t \in Task |-> "none"]

-----------------------------------------------------------------------------
(* enqueue, called by a client or by the body of a running task            *)

MayCall(th) ==
    \/ th \in Client /\ pc[th] = "idle" /\ Alive
    \/ th \in Worker /\ pc[th] = "running"

EnqueueReject(th, t) ==
    /\ MayCall(th)
    /\ future[t] = "none"
    /\ stop \/ QueueFull
    /\ future' = [future EXCEPT ![t] = "rejected"]
    /\ UNCHANGED <<tasks, stop, stop_workers, m_queue_limit, workers, pc, held,
                   owner, toNotify>>

EnqueueAccept(th, t) ==
    /\ MayCall(th)
    /\ future[t] = "none"
    /\ ~stop /\ ~QueueFull
    /\ tasks' = Append(tasks, t)
    /\ future' = [future EXCEPT ![t] = "pending"]
    /\ pc' = [Raced(pc) EXCEPT ![th] = "notifying"]
    /\ UNCHANGED <<stop, stop_workers, m_queue_limit, workers, held, owner,
                   toNotify>>

\* condition.notify_one() outside the lock, after enqueue or after line 53.
Notify(th) ==
    /\ pc[th] = "notifying"
    /\ pc' \in Woken([pc EXCEPT ![th] = IF th \in Client THEN "idle"
                                                        ELSE "running"])
    /\ UNCHANGED <<tasks, stop, stop_workers, m_queue_limit, workers, held,
                   owner, toNotify, future>>

-----------------------------------------------------------------------------
(* The worker loop                                                         *)

WorkerStop(w) ==
    /\ pc[w] = "ready"
    /\ stop
    /\ pc' = [pc EXCEPT ![w] = "exited"]
    /\ UNCHANGED <<tasks, stop, stop_workers, m_queue_limit, workers, held,
                   owner, toNotify, future>>

\* remove_threads asked for a worker to end: this one takes the ticket.
WorkerRetire(w) ==
    /\ pc[w] = "ready"
    /\ ~stop
    /\ HasTicket
    /\ stop_workers' = stop_workers - 1
    /\ pc' = [pc EXCEPT ![w] = "exited"]
    /\ UNCHANGED <<tasks, stop, m_queue_limit, workers, held, owner, toNotify,
                   future>>

WorkerTake(w) ==
    /\ pc[w] = "ready"
    /\ ~stop
    /\ ~HasTicket
    /\ tasks # <<>>
    /\ held' = [held EXCEPT ![w] = Head(tasks)]
    /\ tasks' = Tail(tasks)
    /\ pc' = [Raced(pc) EXCEPT ![w] = "popped"]
    /\ UNCHANGED <<stop, stop_workers, m_queue_limit, workers, owner, toNotify,
                   future>>

WorkerSleep(w) ==
    /\ pc[w] = "ready"
    /\ ~stop
    /\ ~HasTicket
    /\ tasks = <<>>
    /\ pc' = [pc EXCEPT ![w] = "asleep"]
    /\ UNCHANGED <<tasks, stop, stop_workers, m_queue_limit, workers, held,
                   owner, toNotify, future>>

\* Line 53: tasks.empty() without the lock; a racing read may say either.
WorkerPeek(w) ==
    /\ \/ pc[w] = "popped" /\ tasks = <<>>
          /\ pc' = [pc EXCEPT ![w] = "notifying"]
       \/ pc[w] = "popped" /\ tasks # <<>>
          /\ pc' = [pc EXCEPT ![w] = "running"]
       \/ pc[w] = "raced"
          /\ \E next \in {"notifying", "running"} :
                pc' = [pc EXCEPT ![w] = next]
    /\ UNCHANGED <<tasks, stop, stop_workers, m_queue_limit, workers, held,
                   owner, toNotify, future>>

\* task() returns (packaged_task keeps an exception in the future).
WorkerFinish(w) ==
    /\ pc[w] = "running"
    /\ future' = [future EXCEPT ![held[w]] = "ready"]
    /\ held' = [held EXCEPT ![w] = NoTask]
    /\ pc' = [pc EXCEPT ![w] = "ready"]
    /\ UNCHANGED <<tasks, stop, stop_workers, m_queue_limit, workers, owner,
                   toNotify>>

\* std::condition_variable may wake a thread without a notification.
SpuriousWake(th) ==
    /\ pc[th] = "asleep"
    /\ pc' = [pc EXCEPT ![th] = "ready"]
    /\ UNCHANGED <<tasks, stop, stop_workers, m_queue_limit, workers, held,
                   owner, toNotify, future>>

-----------------------------------------------------------------------------
(* wait, clean_queue and set_queue_limit, called by clients                *)

\* wait() finds tasks in the queue and sleeps; on an empty queue it returns.
Wait(c) ==
    /\ c \in Waiter
    /\ pc[c] = "idle"
    /\ Alive
    /\ tasks # <<>>
    /\ pc' = [pc EXCEPT ![c] = "asleep"]
    /\ UNCHANGED <<tasks, stop, stop_workers, m_queue_limit, workers, held,
                   owner, toNotify, future>>

\* The woken caller of wait() evaluates its predicate again.
WaitRecheck(c) ==
    /\ pc[c] = "ready"
    /\ pc' = [pc EXCEPT ![c] = IF tasks = <<>> THEN "idle" ELSE "asleep"]
    /\ UNCHANGED <<tasks, stop, stop_workers, m_queue_limit, workers, held,
                   owner, toNotify, future>>

CleanQueue(c) ==
    /\ pc[c] = "idle"
    /\ Alive
    /\ tasks' = <<>>
    /\ future' = BreakQueued
    /\ pc' = Raced(pc)
    /\ UNCHANGED <<stop, stop_workers, m_queue_limit, workers, held, owner,
                   toNotify>>

SetQueueLimit(c, n) ==
    /\ pc[c] = "idle"
    /\ Alive
    /\ m_queue_limit' = n
    /\ UNCHANGED <<tasks, stop, stop_workers, workers, pc, held, owner,
                   toNotify, future>>

-----------------------------------------------------------------------------
(* The owner: the constructor and add_threads, remove_threads, destructor  *)

\* One iteration of add_threads: add_threads(n) is n of these steps.
AddThread(w) ==
    /\ owner = "idle"
    /\ pc[w] = "none"
    /\ workers' = Append(workers, w)
    /\ pc' = [pc EXCEPT ![w] = "ready"]
    /\ UNCHANGED <<tasks, stop, stop_workers, m_queue_limit, held, owner,
                   toNotify, future>>

RemoveThreads(count) ==
    /\ owner = "idle"
    /\ stop_workers' = stop_workers + Capped(count)
    /\ toNotify' = Capped(count)
    /\ owner' = "removing"
    /\ UNCHANGED <<tasks, stop, m_queue_limit, workers, pc, held, future>>

RemoveNotify ==
    /\ owner = "removing"
    /\ toNotify > 0
    /\ toNotify' = toNotify - 1
    /\ pc' \in Woken(pc)
    /\ UNCHANGED <<tasks, stop, stop_workers, m_queue_limit, workers, held,
                   owner, future>>

\* it->join() returns once the thread has ended; it leaves the vector.
RemoveJoin ==
    /\ owner = "removing"
    /\ toNotify = 0
    /\ workers # <<>>
    /\ pc[Head(workers)] = "exited"
    /\ pc' = [pc EXCEPT ![Head(workers)] = "none"]
    /\ workers' = Tail(workers)
    /\ UNCHANGED <<tasks, stop, stop_workers, m_queue_limit, held, owner,
                   toNotify, future>>

RemoveReturn ==
    /\ owner = "removing"
    /\ toNotify = 0
    /\ workers = <<>>
    /\ owner' = "idle"
    /\ UNCHANGED <<tasks, stop, stop_workers, m_queue_limit, workers, pc, held,
                   toNotify, future>>

Destroy ==
    /\ owner = "idle"
    /\ \A c \in Client : pc[c] = "idle"
    /\ stop' = TRUE
    /\ owner' = "stopping"
    /\ UNCHANGED <<tasks, stop_workers, m_queue_limit, workers, pc, held,
                   toNotify, future>>

DestroyNotify ==
    /\ owner = "stopping"
    /\ pc' = AllWoken(pc)
    /\ owner' = "destroying"
    /\ UNCHANGED <<tasks, stop, stop_workers, m_queue_limit, workers, held,
                   toNotify, future>>

\* Every worker is joined, and the members (the queue) are destroyed.
DestroyReturn ==
    /\ owner = "destroying"
    /\ AllJoined
    /\ owner' = "destroyed"
    /\ tasks' = <<>>
    /\ future' = BreakQueued
    /\ UNCHANGED <<stop, stop_workers, m_queue_limit, workers, pc, held,
                   toNotify>>

\* After the destructor nothing happens any more.
Destroyed == owner = "destroyed" /\ UNCHANGED vars

-----------------------------------------------------------------------------
WorkerStep(w) ==
    \/ WorkerStop(w) \/ WorkerRetire(w) \/ WorkerTake(w) \/ WorkerSleep(w)
    \/ WorkerPeek(w) \/ WorkerFinish(w)

ClientStep(c) ==
    \/ Wait(c) \/ WaitRecheck(c) \/ CleanQueue(c)
    \/ \E n \in Limits : SetQueueLimit(c, n)

OwnerStep ==
    \/ \E w \in Worker : AddThread(w)
    \/ \E count \in 0..(Cardinality(Worker) + 1) : RemoveThreads(count)
    \/ RemoveNotify \/ RemoveJoin \/ RemoveReturn
    \/ Destroy \/ DestroyNotify \/ DestroyReturn

Next ==
    \/ \E th \in Thread :
          \/ \E t \in Task : EnqueueReject(th, t) \/ EnqueueAccept(th, t)
          \/ Notify(th)
          \/ SpuriousWake(th)
    \/ \E w \in Worker : WorkerStep(w)
    \/ \E c \in Client : ClientStep(c)
    \/ OwnerStep
    \/ Destroyed

Spec == Init /\ [][Next]_vars

(***************************************************************************)
(* Fairness.  The operating system runs every thread that can run, a task  *)
(* body returns, and the owner completes the call it is in.  Nothing makes *)
(* a caller start a call, and nothing promises a spurious wakeup.          *)
(***************************************************************************)
Fairness ==
    /\ \A th \in Thread : WF_vars(Notify(th))
    /\ \A w \in Worker : WF_vars(WorkerStep(w))
    /\ \A c \in Client : WF_vars(WaitRecheck(c))
    /\ WF_vars(RemoveNotify) /\ WF_vars(RemoveJoin) /\ WF_vars(RemoveReturn)
    /\ WF_vars(DestroyNotify) /\ WF_vars(DestroyReturn)

FairSpec == Spec /\ Fairness

-----------------------------------------------------------------------------
(* Safety                                                                  *)

TypeOK ==
    /\ tasks \in Seq(Task)
    /\ stop \in BOOLEAN
    /\ stop_workers \in Nat
    /\ m_queue_limit \in 0..SizeMax
    /\ workers \in Seq(Worker)
    /\ pc \in [Thread -> ClientPC \cup WorkerPC]
    /\ \A c \in Client : pc[c] \in ClientPC
    /\ \A w \in Worker : pc[w] \in WorkerPC
    /\ held \in [Worker -> Task \cup {NoTask}]
    /\ owner \in OwnerPC
    /\ toNotify \in Nat
    /\ future \in [Task -> Outcome]

Distinct(s) == \A i, j \in 1..Len(s) : s[i] = s[j] => i = j

\* A pending future always has its task in exactly one place, one position of
\* the queue or one worker's local variable, and no other task is anywhere: no
\* interleaving of pop, clean_queue and destructor loses, doubles or revives one.
TaskOwnership ==
    /\ Distinct(tasks)
    /\ \A v, w \in Worker : held[v] # NoTask /\ held[v] = held[w] => v = w
    /\ \A t \in Task :
          LET queued == t \in Range(tasks)
              taken  == \E w \in Worker : held[w] = t
          IN  /\ future[t] = "pending" <=> (queued \/ taken)
              /\ ~(queued /\ taken)

\* Outside remove_threads no ticket is left over (it would silently end a
\* worker added later), and during it the tickets never exceed the live workers.
TicketsCovered ==
    /\ stop_workers > 0 => owner = "removing"
    /\ stop_workers <= Cardinality(LiveWorkers)

\* No wakeup is lost among the workers: while one sleeps, the threads that are
\* awake or about to notify are enough for every ticket and for the queue.
NoLostWakeup ==
    LET awake    == {w \in LiveWorkers : pc[w] # "asleep"}
        notifier == {c \in Client : pc[c] = "notifying"}
        work     == stop_workers + (IF tasks = <<>> THEN 0 ELSE 1)
    IN  (~stop /\ \E w \in Worker : pc[w] = "asleep") =>
            Cardinality(awake) + Cardinality(notifier) + toNotify >= work

\* When the destructor returns no thread of the pool is left and every future
\* has an outcome: none stays pending.
DestroyedIsQuiet ==
    owner = "destroyed" =>
        /\ LiveWorkers = {}
        /\ \A t \in Task : future[t] # "pending"

-----------------------------------------------------------------------------
(* Refinement: the pool implements the bounded task queue of TaskQueue     *)

Abstract == INSTANCE TaskQueue WITH
    queue  <- tasks,
    active <- {held[w] : w \in Worker} \ {NoTask},
    limit  <- m_queue_limit,
    closed <- stop

\* The pool with its threads, locks and wakeups behaves as the abstract queue:
\* first in first out, bounded, no task started after the destructor began.
QueueSpec == Abstract!Spec

-----------------------------------------------------------------------------
(* Liveness                                                                *)

\* An accepted task is eventually run, cleaned or destroyed, unless the pool
\* is left without workers.
TaskServed ==
    \A t \in Task : future[t] = "pending" ~> (future[t] # "pending" \/ LiveWorkers = {})

\* remove_threads returns when there is a ticket for every worker.
RemoveAllReturns ==
    (owner = "removing" /\ stop_workers = Cardinality(LiveWorkers))
        ~> owner = "idle"

\* The destructor returns, whatever the pool was doing.
DestroyReturns == owner = "stopping" ~> owner = "destroyed"

\* A call of wait() returns unless tasks keep being queued.
WaitReturns ==
    \A c \in Waiter : (pc[c] = "asleep" /\ tasks = <<>>)
                         ~> (pc[c] = "idle" \/ tasks # <<>>)

=============================================================================
