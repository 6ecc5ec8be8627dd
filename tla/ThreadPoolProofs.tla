-------------------------- MODULE ThreadPoolProofs --------------------------
(* Theorems about ThreadPool for any number of workers, clients and tasks. *)
EXTENDS ThreadPool, SequenceTheorems, FiniteSetTheorems, TLAPS

\* One or no sleeper is woken, so notify_one keeps the types of the pcs.
LEMMA WokenType ==
    ASSUME NEW p \in [Thread -> ClientPC \cup WorkerPC],
           \A c \in Client : p[c] \in ClientPC,
           \A w \in Worker : p[w] \in WorkerPC,
           NEW q \in Woken(p)
    PROVE  /\ q \in [Thread -> ClientPC \cup WorkerPC]
           /\ \A c \in Client : q[c] \in ClientPC
           /\ \A w \in Worker : q[w] \in WorkerPC
           /\ \A th \in Thread : q[th] = p[th] \/ (p[th] = "asleep" /\ q[th] = "ready")
  BY DEF Woken, Thread, ClientPC, WorkerPC

LEMMA RacedType ==
    ASSUME NEW p \in [Thread -> ClientPC \cup WorkerPC],
           \A c \in Client : p[c] \in ClientPC,
           \A w \in Worker : p[w] \in WorkerPC
    PROVE  /\ Raced(p) \in [Thread -> ClientPC \cup WorkerPC]
           /\ \A c \in Client : Raced(p)[c] = p[c]
           /\ \A w \in Worker : Raced(p)[w] \in WorkerPC
           /\ \A th \in Thread : Raced(p)[th] = p[th]
                                   \/ (p[th] = "popped" /\ Raced(p)[th] = "raced")
  BY DEF Raced, Thread, ClientPC, WorkerPC

-----------------------------------------------------------------------------
(* Type correctness                                                        *)

LEMMA TypeInit == Init => TypeOK
<1> SUFFICES ASSUME Init PROVE TypeOK
  OBVIOUS
<1>1. tasks \in Seq(Task) /\ workers \in Seq(Worker)
  BY EmptySeq DEF Init
<1>2. pc \in [Thread -> ClientPC \cup WorkerPC]
  BY DEF Init, Thread, ClientPC, WorkerPC
<1>3. (\A c \in Client : pc[c] \in ClientPC) /\ \A w \in Worker : pc[w] \in WorkerPC
  BY ThreadAssumption DEF Init, Thread, ClientPC, WorkerPC
<1>4. m_queue_limit \in 0..SizeMax /\ stop_workers \in Nat /\ toNotify \in Nat
  BY LimitAssumption DEF Init
<1>5. /\ held \in [Worker -> Task \cup {NoTask}]
      /\ future \in [Task -> Outcome]
      /\ owner \in OwnerPC
      /\ stop \in BOOLEAN
  BY DEF Init, OwnerPC, Outcome
<1> QED
  BY <1>1, <1>2, <1>3, <1>4, <1>5 DEF TypeOK

LEMMA TypeNext == TypeOK /\ [Next]_vars => TypeOK'
<1> SUFFICES ASSUME TypeOK, [Next]_vars PROVE TypeOK'
  OBVIOUS
<1> USE ThreadAssumption, LimitAssumption DEF Thread
<1>1. ASSUME NEW th \in Thread, NEW t \in Task, EnqueueReject(th, t) PROVE TypeOK'
  BY <1>1 DEF EnqueueReject, TypeOK, Outcome
<1>2. ASSUME NEW th \in Thread, NEW t \in Task, EnqueueAccept(th, t) PROVE TypeOK'
  <2>1. Raced(pc) \in [Thread -> ClientPC \cup WorkerPC]
        /\ (\A c \in Client : Raced(pc)[c] \in ClientPC)
        /\ \A w \in Worker : Raced(pc)[w] \in WorkerPC
    BY RacedType DEF TypeOK
  <2>2. pc' \in [Thread -> ClientPC \cup WorkerPC]
        /\ (\A c \in Client : pc'[c] \in ClientPC)
        /\ \A w \in Worker : pc'[w] \in WorkerPC
    BY <1>2, <2>1 DEF EnqueueAccept, ClientPC, WorkerPC
  <2>3. tasks' \in Seq(Task) /\ future' \in [Task -> Outcome]
    BY <1>2 DEF EnqueueAccept, TypeOK, Outcome
  <2> QED BY <1>2, <2>2, <2>3 DEF EnqueueAccept, TypeOK
<1>3. ASSUME NEW th \in Thread, Notify(th) PROVE TypeOK'
  <2> DEFINE p == [pc EXCEPT ![th] = IF th \in Client THEN "idle" ELSE "running"]
  <2>1. p \in [Thread -> ClientPC \cup WorkerPC]
        /\ (\A c \in Client : p[c] \in ClientPC)
        /\ \A w \in Worker : p[w] \in WorkerPC
    BY DEF TypeOK, ClientPC, WorkerPC
  <2>2. pc' \in Woken(p)
    BY <1>3 DEF Notify
  <2>3. pc' \in [Thread -> ClientPC \cup WorkerPC]
        /\ (\A c \in Client : pc'[c] \in ClientPC)
        /\ \A w \in Worker : pc'[w] \in WorkerPC
    <3> HIDE DEF p
    <3> QED BY <2>1, <2>2, WokenType
  <2> QED BY <1>3, <2>3 DEF Notify, TypeOK
<1>4. ASSUME NEW th \in Thread, SpuriousWake(th) PROVE TypeOK'
  BY <1>4 DEF SpuriousWake, TypeOK, ClientPC, WorkerPC
<1>5. ASSUME NEW w \in Worker, WorkerStep(w) PROVE TypeOK'
  <2>1. CASE WorkerStop(w)
    BY <2>1 DEF WorkerStop, TypeOK, WorkerPC
  <2>2. CASE WorkerRetire(w)
    BY <2>2 DEF WorkerRetire, HasTicket, TypeOK, WorkerPC
  <2>3. CASE WorkerTake(w)
    <3>1. tasks' \in Seq(Task) /\ held' \in [Worker -> Task \cup {NoTask}]
      BY <2>3, HeadTailProperties DEF WorkerTake, TypeOK
    <3>2. Raced(pc) \in [Thread -> ClientPC \cup WorkerPC]
          /\ (\A c \in Client : Raced(pc)[c] \in ClientPC)
          /\ \A v \in Worker : Raced(pc)[v] \in WorkerPC
      BY RacedType DEF TypeOK
    <3>3. pc' \in [Thread -> ClientPC \cup WorkerPC]
          /\ (\A c \in Client : pc'[c] \in ClientPC)
          /\ \A v \in Worker : pc'[v] \in WorkerPC
      BY <2>3, <3>2 DEF WorkerTake, WorkerPC
    <3> QED BY <2>3, <3>1, <3>3 DEF WorkerTake, TypeOK
  <2>4. CASE WorkerSleep(w)
    BY <2>4 DEF WorkerSleep, TypeOK, WorkerPC
  <2>5. CASE WorkerPeek(w)
    BY <2>5 DEF WorkerPeek, TypeOK, WorkerPC
  <2>6. CASE WorkerFinish(w)
    BY <2>6, TaskAssumption DEF WorkerFinish, TypeOK, WorkerPC, Outcome
  <2> QED BY <1>5, <2>1, <2>2, <2>3, <2>4, <2>5, <2>6 DEF WorkerStep
<1>6. ASSUME NEW c \in Client, ClientStep(c) PROVE TypeOK'
  <2>1. CASE Wait(c)
    BY <2>1 DEF Wait, TypeOK, ClientPC
  <2>2. CASE WaitRecheck(c)
    BY <2>2 DEF WaitRecheck, TypeOK, ClientPC
  <2>3. CASE CleanQueue(c)
    <3>1. pc' \in [Thread -> ClientPC \cup WorkerPC]
          /\ (\A d \in Client : pc'[d] \in ClientPC)
          /\ \A w \in Worker : pc'[w] \in WorkerPC
      BY <2>3, RacedType DEF CleanQueue, TypeOK
    <3>2. tasks' \in Seq(Task) /\ future' \in [Task -> Outcome]
      BY <2>3 DEF CleanQueue, BreakQueued, TypeOK, Outcome
    <3> QED BY <2>3, <3>1, <3>2 DEF CleanQueue, TypeOK
  <2>4. ASSUME NEW n \in Limits, SetQueueLimit(c, n) PROVE TypeOK'
    BY <2>4 DEF SetQueueLimit, TypeOK
  <2> QED BY <1>6, <2>1, <2>2, <2>3, <2>4 DEF ClientStep
<1>7. ASSUME OwnerStep PROVE TypeOK'
  <2>1. ASSUME NEW w \in Worker, AddThread(w) PROVE TypeOK'
    BY <2>1 DEF AddThread, TypeOK, WorkerPC
  <2>2. ASSUME NEW count \in 0..(Cardinality(Worker) + 1), RemoveThreads(count)
        PROVE TypeOK'
    <3>1. Cardinality(Worker) \in Nat /\ Len(workers) \in Nat
      BY FS_CardinalityType, LenProperties DEF TypeOK
    <3>2. Capped(count) \in Nat
      BY <3>1 DEF Capped
    <3> QED BY <2>2, <3>2 DEF RemoveThreads, TypeOK, OwnerPC
  <2>3. CASE RemoveNotify
    <3>1. pc' \in [Thread -> ClientPC \cup WorkerPC]
          /\ (\A d \in Client : pc'[d] \in ClientPC)
          /\ \A w \in Worker : pc'[w] \in WorkerPC
      BY <2>3, WokenType DEF RemoveNotify, TypeOK
    <3> QED BY <2>3, <3>1 DEF RemoveNotify, TypeOK
  <2>4. CASE RemoveJoin
    <3>1. Head(workers) \in Worker /\ workers' \in Seq(Worker)
      BY <2>4, HeadTailProperties DEF RemoveJoin, TypeOK
    <3> QED BY <2>4, <3>1 DEF RemoveJoin, TypeOK, WorkerPC
  <2>5. CASE RemoveReturn
    BY <2>5 DEF RemoveReturn, TypeOK, OwnerPC
  <2>6. CASE Destroy
    BY <2>6 DEF Destroy, TypeOK, OwnerPC
  <2>7. CASE DestroyNotify
    BY <2>7 DEF DestroyNotify, AllWoken, TypeOK, OwnerPC, ClientPC, WorkerPC
  <2>8. CASE DestroyReturn
    BY <2>8 DEF DestroyReturn, BreakQueued, TypeOK, OwnerPC, Outcome
  <2> QED BY <1>7, <2>1, <2>2, <2>3, <2>4, <2>5, <2>6, <2>7, <2>8 DEF OwnerStep
<1>8. CASE UNCHANGED vars
  BY <1>8 DEF vars, TypeOK
<1> QED BY <1>1, <1>2, <1>3, <1>4, <1>5, <1>6, <1>7, <1>8 DEF Next, Destroyed

\* Every variable of the pool keeps its type in every behaviour.
THEOREM TypeCorrect == Spec => []TypeOK
  BY TypeInit, TypeNext, PTL DEF Spec

-----------------------------------------------------------------------------
(* Sequences without duplicates                                            *)

\* What push does to the elements of a queue.
LEMMA AppendDistinct ==
    ASSUME NEW S, NEW s \in Seq(S), NEW e \in S
    PROVE  /\ Range(Append(s, e)) = Range(s) \cup {e}
           /\ Distinct(s) /\ e \notin Range(s) => Distinct(Append(s, e))
<1> DEFINE a == Append(s, e)
<1>1. /\ a \in Seq(S)
      /\ Len(a) = Len(s) + 1
      /\ DOMAIN a = 1..(Len(s) + 1)
      /\ DOMAIN s = 1..Len(s)
      /\ Len(s) \in Nat
      /\ \A i \in 1..Len(s) : a[i] = s[i]
      /\ a[Len(s) + 1] = e
  BY AppendProperties, LenProperties
<1> HIDE DEF a
<1>2. Range(a) = Range(s) \cup {e}
  <2>1. \A x : x \in Range(a) => x \in Range(s) \cup {e}
    <3> SUFFICES ASSUME NEW i \in 1..(Len(s) + 1) PROVE a[i] \in Range(s) \cup {e}
      BY <1>1 DEF Range
    <3>1. i \in 1..Len(s) \/ i = Len(s) + 1
      BY <1>1
    <3> QED BY <1>1, <3>1 DEF Range
  <2>2. \A x : x \in Range(s) => x \in Range(a)
    <3> SUFFICES ASSUME NEW i \in 1..Len(s) PROVE s[i] \in Range(a)
      BY <1>1 DEF Range
    <3>1. i \in 1..(Len(s) + 1)
      BY <1>1
    <3> QED BY <1>1, <3>1 DEF Range
  <2>3. e \in Range(a)
    <3>1. Len(s) + 1 \in 1..(Len(s) + 1)
      BY <1>1
    <3> QED BY <1>1, <3>1 DEF Range
  <2> QED BY <2>1, <2>2, <2>3
<1>3. ASSUME Distinct(s), e \notin Range(s) PROVE Distinct(a)
  <2> SUFFICES ASSUME NEW i \in 1..(Len(s) + 1), NEW j \in 1..(Len(s) + 1),
                      a[i] = a[j]
               PROVE  i = j
    BY <1>1 DEF Distinct
  <2>1. \A k \in 1..Len(s) : a[k] # e
    BY <1>1, <1>3 DEF Range
  <2>2. CASE i \in 1..Len(s) /\ j \in 1..Len(s)
    BY <1>1, <1>3, <2>2 DEF Distinct
  <2> QED BY <1>1, <2>1, <2>2
<1> QED BY <1>2, <1>3 DEF a

\* What pop does to the elements of a queue.
LEMMA TailDistinct ==
    ASSUME NEW S, NEW s \in Seq(S), s # <<>>, Distinct(s)
    PROVE  /\ Head(s) \in S /\ Head(s) \in Range(s)
           /\ Tail(s) \in Seq(S)
           /\ Range(Tail(s)) = Range(s) \ {Head(s)}
           /\ Distinct(Tail(s))
<1> DEFINE u == Tail(s)
<1>1. /\ u \in Seq(S)
      /\ Len(s) \in Nat /\ Len(s) > 0
      /\ Len(u) = Len(s) - 1
      /\ DOMAIN u = 1..(Len(s) - 1)
      /\ DOMAIN s = 1..Len(s)
      /\ \A i \in 1..(Len(s) - 1) : u[i] = s[i + 1]
      /\ Head(s) \in S /\ Head(s) = s[1]
  BY HeadTailProperties, LenProperties, EmptySeq
<1> HIDE DEF u
<1>2. Head(s) \in Range(s)
  <2>1. 1 \in 1..Len(s)
    BY <1>1
  <2> QED BY <1>1, <2>1 DEF Range
<1>3. \A x : x \in Range(u) => x \in Range(s) /\ x # Head(s)
  <2> SUFFICES ASSUME NEW i \in 1..(Len(s) - 1) PROVE u[i] \in Range(s) /\ u[i] # Head(s)
    BY <1>1 DEF Range
  <2>1. i + 1 \in 1..Len(s) /\ 1 \in 1..Len(s) /\ i + 1 # 1
    BY <1>1
  <2>2. s[i + 1] # s[1]
    BY <2>1 DEF Distinct
  <2> QED BY <1>1, <2>1, <2>2 DEF Range
<1>4. \A x : x \in Range(s) /\ x # Head(s) => x \in Range(u)
  <2> SUFFICES ASSUME NEW i \in 1..Len(s), s[i] # Head(s) PROVE s[i] \in Range(u)
    BY <1>1 DEF Range
  <2>1. i - 1 \in 1..(Len(s) - 1) /\ (i - 1) + 1 = i
    BY <1>1
  <2> QED BY <1>1, <2>1 DEF Range
<1>5. Distinct(u)
  <2> SUFFICES ASSUME NEW i \in 1..(Len(s) - 1), NEW j \in 1..(Len(s) - 1), u[i] = u[j]
               PROVE  i = j
    BY <1>1 DEF Distinct
  <2>1. i + 1 \in 1..Len(s) /\ j + 1 \in 1..Len(s) /\ s[i + 1] = s[j + 1]
    BY <1>1
  <2>2. i + 1 = j + 1
    BY <2>1 DEF Distinct
  <2> QED BY <1>1, <2>2
<1>6. Range(u) = Range(s) \ {Head(s)}
  BY <1>3, <1>4
<1> QED BY <1>1, <1>2, <1>5, <1>6 DEF u

\* The empty queue.
LEMMA EmptyDistinct == Range(<<>>) = {} /\ Distinct(<<>>) /\ Len(<<>>) = 0
  BY DEF Range, Distinct

-----------------------------------------------------------------------------
(* Task ownership.  TaskOwnership is not inductive alone: that a worker    *)
(* holds a task exactly while its pc says so must be carried along.        *)

HeldIsBusy == \A w \in Worker : held[w] # NoTask <=> pc[w] \in Busy

TaskInv == TypeOK /\ HeldIsBusy /\ TaskOwnership

\* The pcs at which a worker holds a task follow the variable task.
LEMMA HeldIsBusyNext ==
    ASSUME TypeOK, HeldIsBusy, [Next]_vars PROVE HeldIsBusy'
<1> USE ThreadAssumption, TaskAssumption DEF Thread, HeldIsBusy, Busy
<1>1. ASSUME NEW th \in Thread, NEW t \in Task, EnqueueReject(th, t) PROVE HeldIsBusy'
  BY <1>1 DEF EnqueueReject
<1>2. ASSUME NEW th \in Thread, NEW t \in Task, EnqueueAccept(th, t) PROVE HeldIsBusy'
  <2>1. /\ Raced(pc) \in [Thread -> ClientPC \cup WorkerPC]
        /\ \A v \in Thread : Raced(pc)[v] = pc[v]
                             \/ (pc[v] = "popped" /\ Raced(pc)[v] = "raced")
    BY RacedType DEF TypeOK
  <2>2. /\ pc' = [Raced(pc) EXCEPT ![th] = "notifying"]
        /\ held' = held
        /\ th \in Client \/ (th \in Worker /\ pc[th] = "running")
    BY <1>2 DEF EnqueueAccept, MayCall
  <2>3. \A v \in Worker : pc'[v] \in Busy <=> pc[v] \in Busy
    BY <2>1, <2>2
  <2> QED BY <2>2, <2>3
<1>3. ASSUME NEW th \in Thread, Notify(th) PROVE HeldIsBusy'
  <2> DEFINE p == [pc EXCEPT ![th] = IF th \in Client THEN "idle" ELSE "running"]
  <2>1. p \in [Thread -> ClientPC \cup WorkerPC]
        /\ (\A c \in Client : p[c] \in ClientPC)
        /\ (\A w \in Worker : p[w] \in WorkerPC)
        /\ \A w \in Worker : p[w] \in Busy <=> pc[w] \in Busy
    BY <1>3 DEF Notify, TypeOK, ClientPC, WorkerPC
  <2>2. pc' \in Woken(p) /\ UNCHANGED held
    BY <1>3 DEF Notify
  <2>3. \A w \in Worker : pc'[w] = p[w] \/ (p[w] = "asleep" /\ pc'[w] = "ready")
    <3> HIDE DEF p
    <3> QED BY <2>1, <2>2, WokenType
  <2> HIDE DEF p
  <2> QED BY <2>1, <2>2, <2>3
<1>4. ASSUME NEW th \in Thread, SpuriousWake(th) PROVE HeldIsBusy'
  BY <1>4 DEF SpuriousWake, TypeOK
<1>5. ASSUME NEW w \in Worker, WorkerStep(w) PROVE HeldIsBusy'
  <2>1. CASE WorkerStop(w) \/ WorkerRetire(w) \/ WorkerSleep(w) \/ WorkerPeek(w)
    BY <2>1 DEF WorkerStop, WorkerRetire, WorkerSleep, WorkerPeek, TypeOK
  <2>2. CASE WorkerTake(w)
    <3>1. Head(tasks) \in Task
      BY <2>2, HeadTailProperties DEF WorkerTake, TypeOK
    <3>2. /\ Raced(pc) \in [Thread -> ClientPC \cup WorkerPC]
          /\ \A v \in Thread : Raced(pc)[v] = pc[v]
                               \/ (pc[v] = "popped" /\ Raced(pc)[v] = "raced")
      BY RacedType DEF TypeOK
    <3>3. /\ pc' = [Raced(pc) EXCEPT ![w] = "popped"]
          /\ held' = [held EXCEPT ![w] = Head(tasks)]
          /\ held \in [Worker -> Task \cup {NoTask}]
      BY <2>2 DEF WorkerTake, TypeOK
    <3>4. \A v \in Worker : v # w => (held'[v] = held[v] /\ (pc'[v] \in Busy <=> pc[v] \in Busy))
      BY <3>2, <3>3
    <3>5. held'[w] # NoTask /\ pc'[w] \in Busy
      BY <3>1, <3>2, <3>3
    <3> QED BY <3>4, <3>5
  <2>3. CASE WorkerFinish(w)
    BY <2>3 DEF WorkerFinish, TypeOK
  <2> QED BY <1>5, <2>1, <2>2, <2>3 DEF WorkerStep
<1>6. ASSUME NEW c \in Client, ClientStep(c) PROVE HeldIsBusy'
  <2>1. CASE Wait(c) \/ WaitRecheck(c)
    BY <2>1 DEF Wait, WaitRecheck, TypeOK
  <2>2. CASE CleanQueue(c)
    BY <2>2, RacedType DEF CleanQueue, TypeOK
  <2>3. ASSUME NEW n \in Limits, SetQueueLimit(c, n) PROVE HeldIsBusy'
    BY <2>3 DEF SetQueueLimit
  <2> QED BY <1>6, <2>1, <2>2, <2>3 DEF ClientStep
<1>7. ASSUME OwnerStep PROVE HeldIsBusy'
  <2>1. ASSUME NEW w \in Worker, AddThread(w) PROVE HeldIsBusy'
    BY <2>1 DEF AddThread, TypeOK
  <2>2. CASE RemoveNotify
    BY <2>2, WokenType DEF RemoveNotify, TypeOK
  <2>3. CASE RemoveJoin
    <3>1. Head(workers) \in Worker
      BY <2>3, HeadTailProperties DEF RemoveJoin, TypeOK
    <3> QED BY <2>3, <3>1 DEF RemoveJoin, TypeOK
  <2>4. CASE DestroyNotify
    BY <2>4 DEF DestroyNotify, AllWoken, TypeOK
  <2>5. CASE UNCHANGED <<pc, held>>
    BY <2>5
  <2> QED BY <1>7, <2>1, <2>2, <2>3, <2>4, <2>5
          DEF OwnerStep, RemoveThreads, RemoveReturn, Destroy, DestroyReturn
<1>8. CASE UNCHANGED vars
  BY <1>8 DEF vars
<1> QED BY <1>1, <1>2, <1>3, <1>4, <1>5, <1>6, <1>7, <1>8 DEF Next, Destroyed

LEMMA TaskInvInit == Init => TaskInv
<1> SUFFICES ASSUME Init PROVE TaskInv
  OBVIOUS
<1>1. TypeOK
  BY TypeInit
<1>2. HeldIsBusy
  BY ThreadAssumption DEF Init, HeldIsBusy, Busy, Thread
<1>3. TaskOwnership
  BY EmptyDistinct, TaskAssumption DEF Init, TaskOwnership
<1> QED BY <1>1, <1>2, <1>3 DEF TaskInv

LEMMA TaskInvNext == TaskInv /\ [Next]_vars => TaskInv'
<1> SUFFICES ASSUME TaskInv, [Next]_vars PROVE TaskInv'
  OBVIOUS
<1> USE DEF TaskInv
<1>t. TypeOK' /\ HeldIsBusy'
  BY TypeNext, HeldIsBusyNext
<1>1. ASSUME NEW th \in Thread, NEW t \in Task, EnqueueReject(th, t) PROVE TaskOwnership'
  BY <1>1 DEF EnqueueReject, TypeOK, TaskOwnership
<1>2. ASSUME NEW th \in Thread, NEW t \in Task, EnqueueAccept(th, t) PROVE TaskOwnership'
  <2>1. /\ tasks' = Append(tasks, t)
        /\ held' = held
        /\ future' = [future EXCEPT ![t] = "pending"]
        /\ future[t] = "none"
    BY <1>2 DEF EnqueueAccept
  <2>2. t \notin Range(tasks) /\ \A w \in Worker : held[w] # t
    BY <2>1 DEF TaskOwnership
  <2>3. Range(tasks') = Range(tasks) \cup {t} /\ Distinct(tasks')
    BY <2>1, <2>2, AppendDistinct DEF TypeOK, TaskOwnership
  <2> QED BY <2>1, <2>2, <2>3 DEF TaskOwnership, TypeOK
<1>3. ASSUME NEW w \in Worker, WorkerTake(w) PROVE TaskOwnership'
  <2>1. /\ tasks # <<>> /\ tasks' = Tail(tasks)
        /\ held' = [held EXCEPT ![w] = Head(tasks)]
        /\ future' = future
        /\ pc[w] = "ready"
    BY <1>3 DEF WorkerTake
  <2>2. held[w] = NoTask
    BY <2>1 DEF HeldIsBusy, Busy
  <2>3. /\ Head(tasks) \in Task /\ Head(tasks) \in Range(tasks)
        /\ Range(tasks') = Range(tasks) \ {Head(tasks)}
        /\ Distinct(tasks')
    BY <2>1, TailDistinct DEF TypeOK, TaskOwnership
  <2>4. \A v \in Worker : held[v] # Head(tasks)
    BY <2>3 DEF TaskOwnership
  <2> QED BY <2>1, <2>2, <2>3, <2>4, TaskAssumption DEF TaskOwnership, TypeOK
<1>4. ASSUME NEW w \in Worker, WorkerFinish(w) PROVE TaskOwnership'
  <2>1. /\ tasks' = tasks
        /\ held' = [held EXCEPT ![w] = NoTask]
        /\ future' = [future EXCEPT ![held[w]] = "ready"]
        /\ held[w] # NoTask /\ held[w] \in Task
    BY <1>4 DEF WorkerFinish, HeldIsBusy, Busy, TypeOK
  <2>2. held[w] \notin Range(tasks)
    BY <2>1 DEF TaskOwnership
  <2> QED BY <2>1, <2>2, TaskAssumption DEF TaskOwnership, TypeOK
<1>5. ASSUME tasks' = <<>>, future' = BreakQueued, UNCHANGED held PROVE TaskOwnership'
  BY <1>5, EmptyDistinct DEF TaskOwnership, BreakQueued, TypeOK
<1>6. ASSUME UNCHANGED <<tasks, held, future>> PROVE TaskOwnership'
  BY <1>6 DEF TaskOwnership
<1>7. ASSUME NEW w \in Worker, WorkerStep(w) PROVE TaskOwnership'
  BY <1>3, <1>4, <1>6, <1>7
     DEF WorkerStep, WorkerStop, WorkerRetire, WorkerSleep, WorkerPeek
<1>8. ASSUME NEW c \in Client, ClientStep(c) PROVE TaskOwnership'
  BY <1>5, <1>6, <1>8 DEF ClientStep, Wait, WaitRecheck, CleanQueue, SetQueueLimit
<1>9. ASSUME OwnerStep PROVE TaskOwnership'
  BY <1>5, <1>6, <1>9
     DEF OwnerStep, AddThread, RemoveThreads, RemoveNotify, RemoveJoin,
         RemoveReturn, Destroy, DestroyNotify, DestroyReturn
<1>10. ASSUME UNCHANGED vars PROVE TaskOwnership'
  BY <1>6, <1>10 DEF vars
<1>11. TaskOwnership'
  BY <1>1, <1>2, <1>6, <1>7, <1>8, <1>9, <1>10 DEF Next, Destroyed, Notify, SpuriousWake
<1> QED BY <1>t, <1>11

\* A pending future's task is in exactly one place, and no other task is.
THEOREM TaskOwned == Spec => []TaskOwnership
<1>1. TaskInv => TaskOwnership
  BY DEF TaskInv
<1> QED BY <1>1, TaskInvInit, TaskInvNext, PTL DEF Spec

-----------------------------------------------------------------------------
(* Tickets and the end of the pool.  Both need to know that the vector     *)
(* lists exactly the threads that were started and not joined, once each,  *)
(* and which threads may still be there in each phase of the owner.        *)

WorkersListed ==
    /\ Distinct(workers)
    /\ \A w \in Worker : pc[w] # "none" <=> w \in Range(workers)

Phases ==
    /\ stop <=> owner \in {"stopping", "destroying", "destroyed"}
    /\ stop => \A c \in Client : pc[c] = "idle"
    /\ owner = "idle" => \A w \in Worker : pc[w] # "exited"
    /\ owner = "destroyed" => tasks = <<>> /\ LiveWorkers = {}

PoolInv == TypeOK /\ WorkersListed /\ Phases /\ TicketsCovered

LEMMA LiveFinite ==
    LiveWorkers \subseteq Worker /\ IsFiniteSet(LiveWorkers)
      /\ Cardinality(LiveWorkers) \in Nat
  BY ThreadAssumption, FS_Subset, FS_CardinalityType DEF LiveWorkers

\* A step that starts, ends and joins no worker.
SameThreads ==
    /\ workers' = workers
    /\ \A w \in Worker : /\ pc'[w] = "none" <=> pc[w] = "none"
                         /\ pc'[w] = "exited" <=> pc[w] = "exited"

\* Only four steps start, end or join a worker.
LEMMA ThreadSteps ==
    ASSUME TypeOK, [Next]_vars
    PROVE  \/ \E w \in Worker : WorkerStop(w) \/ WorkerRetire(w) \/ AddThread(w)
           \/ RemoveJoin
           \/ SameThreads
<1> USE ThreadAssumption DEF Thread
<1>1. ASSUME NEW th \in Thread, NEW t \in Task,
             EnqueueReject(th, t) \/ EnqueueAccept(th, t)
      PROVE  SameThreads
  <2>1. CASE EnqueueReject(th, t)
    BY <2>1 DEF EnqueueReject, SameThreads
  <2>2. CASE EnqueueAccept(th, t)
    <3>1. /\ Raced(pc) \in [Thread -> ClientPC \cup WorkerPC]
          /\ \A v \in Thread : Raced(pc)[v] = pc[v]
                               \/ (pc[v] = "popped" /\ Raced(pc)[v] = "raced")
      BY RacedType DEF TypeOK
    <3>2. /\ pc' = [Raced(pc) EXCEPT ![th] = "notifying"]
          /\ workers' = workers
          /\ th \in Client \/ (th \in Worker /\ pc[th] = "running")
      BY <2>2 DEF EnqueueAccept, MayCall
    <3> QED BY <3>1, <3>2 DEF SameThreads
  <2> QED BY <1>1, <2>1, <2>2
<1>2. ASSUME NEW th \in Thread, Notify(th) PROVE SameThreads
  <2> DEFINE p == [pc EXCEPT ![th] = IF th \in Client THEN "idle" ELSE "running"]
  <2>1. /\ p \in [Thread -> ClientPC \cup WorkerPC]
        /\ \A c \in Client : p[c] \in ClientPC
        /\ \A w \in Worker : p[w] \in WorkerPC
        /\ \A w \in Worker : /\ p[w] = "none" <=> pc[w] = "none"
                             /\ p[w] = "exited" <=> pc[w] = "exited"
    BY <1>2 DEF Notify, TypeOK, ClientPC, WorkerPC
  <2>2. pc' \in Woken(p) /\ workers' = workers
    BY <1>2 DEF Notify
  <2>3. \A w \in Worker : pc'[w] = p[w] \/ (p[w] = "asleep" /\ pc'[w] = "ready")
    <3> HIDE DEF p
    <3> QED BY <2>1, <2>2, WokenType
  <2> HIDE DEF p
  <2> QED BY <2>1, <2>2, <2>3 DEF SameThreads
<1>3. ASSUME NEW th \in Thread, SpuriousWake(th) PROVE SameThreads
  BY <1>3 DEF SpuriousWake, TypeOK, SameThreads
<1>4. ASSUME NEW w \in Worker, WorkerStep(w)
      PROVE  WorkerStop(w) \/ WorkerRetire(w) \/ SameThreads
  <2>1. CASE WorkerTake(w)
    <3>1. /\ Raced(pc) \in [Thread -> ClientPC \cup WorkerPC]
          /\ \A v \in Thread : Raced(pc)[v] = pc[v]
                               \/ (pc[v] = "popped" /\ Raced(pc)[v] = "raced")
      BY RacedType DEF TypeOK
    <3>2. /\ pc' = [Raced(pc) EXCEPT ![w] = "popped"]
          /\ workers' = workers /\ pc[w] = "ready"
      BY <2>1 DEF WorkerTake
    <3> QED BY <3>1, <3>2 DEF SameThreads
  <2>2. CASE WorkerSleep(w) \/ WorkerPeek(w) \/ WorkerFinish(w)
    BY <2>2 DEF WorkerSleep, WorkerPeek, WorkerFinish, TypeOK, SameThreads
  <2> QED BY <1>4, <2>1, <2>2 DEF WorkerStep
<1>5. ASSUME NEW c \in Client, ClientStep(c) PROVE SameThreads
  <2>1. CASE Wait(c) \/ WaitRecheck(c)
    BY <2>1 DEF Wait, WaitRecheck, TypeOK, SameThreads
  <2>2. CASE CleanQueue(c)
    BY <2>2, RacedType DEF CleanQueue, TypeOK, SameThreads
  <2>3. CASE \E n \in Limits : SetQueueLimit(c, n)
    BY <2>3 DEF SetQueueLimit, SameThreads
  <2> QED BY <1>5, <2>1, <2>2, <2>3 DEF ClientStep
<1>6. ASSUME OwnerStep
      PROVE  (\E w \in Worker : AddThread(w)) \/ RemoveJoin \/ SameThreads
  <2>1. CASE RemoveNotify
    BY <2>1, WokenType DEF RemoveNotify, TypeOK, SameThreads
  <2>2. CASE DestroyNotify
    BY <2>2 DEF DestroyNotify, AllWoken, TypeOK, SameThreads
  <2>3. CASE UNCHANGED <<workers, pc>>
    BY <2>3 DEF SameThreads
  <2> QED BY <1>6, <2>1, <2>2, <2>3
          DEF OwnerStep, RemoveThreads, RemoveReturn, Destroy, DestroyReturn
<1>7. ASSUME UNCHANGED vars PROVE SameThreads
  BY <1>7 DEF vars, SameThreads
<1> QED BY <1>1, <1>2, <1>3, <1>4, <1>5, <1>6, <1>7 DEF Next, Destroyed

LEMMA WorkersListedNext ==
    ASSUME TypeOK, WorkersListed, [Next]_vars PROVE WorkersListed'
<1> USE ThreadAssumption DEF Thread
<1>1. ASSUME NEW w \in Worker, WorkerStop(w) \/ WorkerRetire(w) PROVE WorkersListed'
  BY <1>1 DEF WorkerStop, WorkerRetire, WorkersListed, TypeOK
<1>2. ASSUME NEW w \in Worker, AddThread(w) PROVE WorkersListed'
  <2>1. /\ pc[w] = "none" /\ workers' = Append(workers, w)
        /\ pc' = [pc EXCEPT ![w] = "ready"]
    BY <1>2 DEF AddThread
  <2>2. w \notin Range(workers)
    BY <2>1 DEF WorkersListed
  <2>3. Range(workers') = Range(workers) \cup {w} /\ Distinct(workers')
    BY <2>1, <2>2, AppendDistinct DEF TypeOK, WorkersListed
  <2> QED BY <2>1, <2>3 DEF WorkersListed, TypeOK
<1>3. ASSUME RemoveJoin PROVE WorkersListed'
  <2>1. /\ workers # <<>> /\ workers' = Tail(workers)
        /\ pc' = [pc EXCEPT ![Head(workers)] = "none"]
    BY <1>3 DEF RemoveJoin
  <2>2. /\ Head(workers) \in Worker
        /\ Range(workers') = Range(workers) \ {Head(workers)}
        /\ Distinct(workers')
    BY <2>1, TailDistinct DEF TypeOK, WorkersListed
  <2> QED BY <2>1, <2>2 DEF WorkersListed, TypeOK
<1>4. ASSUME SameThreads PROVE WorkersListed'
  BY <1>4 DEF SameThreads, WorkersListed
<1> QED BY <1>1, <1>2, <1>3, <1>4, ThreadSteps

\* The owner's phase, stop and the tickets change only in these steps.
SameOwner == UNCHANGED <<owner, stop, stop_workers>>

LEMMA OwnerSteps ==
    ASSUME [Next]_vars
    PROVE  \/ \E w \in Worker : WorkerRetire(w)
           \/ \E count \in 0..(Cardinality(Worker) + 1) : RemoveThreads(count)
           \/ RemoveReturn \/ Destroy \/ DestroyNotify \/ DestroyReturn
           \/ SameOwner
  BY DEF Next, vars, SameOwner, EnqueueReject, EnqueueAccept, Notify, SpuriousWake,
         WorkerStep, WorkerStop, WorkerTake, WorkerSleep, WorkerPeek, WorkerFinish,
         ClientStep, Wait, WaitRecheck, CleanQueue, SetQueueLimit,
         OwnerStep, AddThread, RemoveNotify, RemoveJoin, Destroyed

\* Every listed thread that has not ended is live, so that capping a removal
\* at workers.size() bounds the tickets by the live workers.
LEMMA ListedLive ==
    ASSUME TypeOK, WorkersListed, \A w \in Worker : pc[w] # "exited"
    PROVE  Len(workers) <= Cardinality(LiveWorkers)
<1>1. Len(workers) \in Nat /\ DOMAIN workers = 1..Len(workers)
      /\ workers \in [1..Len(workers) -> Worker]
  BY LenProperties DEF TypeOK
<1>2. \A i \in 1..Len(workers) : workers[i] \in LiveWorkers
  BY <1>1 DEF WorkersListed, LiveWorkers, Live, Range
<1>3. workers \in Injection(1..Len(workers), LiveWorkers)
  BY <1>1, <1>2 DEF WorkersListed, Distinct, Injection, IsInjective
<1>4. Cardinality(1..Len(workers)) <= Cardinality(LiveWorkers)
  BY <1>3, LiveFinite, FS_Injection
<1> QED BY <1>1, <1>4, FS_Interval

LEMMA TicketsNext ==
    ASSUME PoolInv, TypeOK', [Next]_vars PROVE TicketsCovered'
<1> USE ThreadAssumption DEF PoolInv, Thread
<1>1. ASSUME SameThreads, SameOwner PROVE TicketsCovered'
  <2>1. LiveWorkers' = LiveWorkers
    BY <1>1 DEF SameThreads, LiveWorkers, Live
  <2> QED BY <1>1, <2>1 DEF SameOwner, TicketsCovered
<1>2. ASSUME stop_workers' = 0 PROVE TicketsCovered'
  <2>1. Cardinality(LiveWorkers') \in Nat
    <3>1. LiveWorkers' \subseteq Worker
      BY DEF LiveWorkers
    <3> QED BY <3>1, FS_Subset, FS_CardinalityType
  <2> QED BY <1>2, <2>1 DEF TicketsCovered
<1>3. ASSUME NEW w \in Worker, WorkerStop(w) PROVE TicketsCovered'
  <2>1. stop_workers = 0
    BY <1>3 DEF WorkerStop, Phases, TicketsCovered, TypeOK
  <2> QED BY <1>2, <1>3, <2>1 DEF WorkerStop
<1>4. ASSUME NEW w \in Worker, WorkerRetire(w) PROVE TicketsCovered'
  <2>1. /\ pc[w] = "ready" /\ pc' = [pc EXCEPT ![w] = "exited"]
        /\ stop_workers > 0 /\ stop_workers' = stop_workers - 1 /\ owner' = owner
    BY <1>4 DEF WorkerRetire, HasTicket
  <2>2. LiveWorkers' = LiveWorkers \ {w} /\ w \in LiveWorkers
    BY <2>1 DEF LiveWorkers, Live, TypeOK
  <2>3. Cardinality(LiveWorkers') = Cardinality(LiveWorkers) - 1
    BY <2>2, LiveFinite, FS_RemoveElement
  <2> QED BY <2>1, <2>3, LiveFinite DEF TicketsCovered, TypeOK
<1>5. ASSUME NEW w \in Worker, AddThread(w) PROVE TicketsCovered'
  <2>1. stop_workers = 0
    BY <1>5 DEF AddThread, TicketsCovered, TypeOK
  <2> QED BY <1>2, <1>5, <2>1 DEF AddThread
<1>6. ASSUME RemoveJoin PROVE TicketsCovered'
  <2>1. LiveWorkers' = LiveWorkers
    <3>1. Head(workers) \in Worker /\ pc[Head(workers)] = "exited"
          /\ pc' = [pc EXCEPT ![Head(workers)] = "none"]
      BY <1>6, HeadTailProperties DEF RemoveJoin, TypeOK
    <3> QED BY <3>1 DEF LiveWorkers, Live, TypeOK
  <2> QED BY <1>6, <2>1 DEF RemoveJoin, TicketsCovered
<1>7. ASSUME NEW count \in 0..(Cardinality(Worker) + 1), RemoveThreads(count)
      PROVE  TicketsCovered'
  <2>1. /\ stop_workers = 0 /\ owner' = "removing"
        /\ stop_workers' = stop_workers + Capped(count) /\ pc' = pc
        /\ \A w \in Worker : pc[w] # "exited"
    BY <1>7 DEF RemoveThreads, TicketsCovered, TypeOK, Phases
  <2>2. LiveWorkers' = LiveWorkers
    BY <2>1 DEF LiveWorkers, Live
  <2>3. Cardinality(Worker) \in Nat /\ Len(workers) \in Nat
    BY FS_CardinalityType, LenProperties DEF TypeOK
  <2>4. Capped(count) <= Len(workers) /\ Capped(count) \in Nat
    BY <2>3 DEF Capped
  <2>5. Len(workers) <= Cardinality(LiveWorkers)
    BY <2>1, ListedLive
  <2>6. stop_workers' <= Cardinality(LiveWorkers)
    BY <2>1, <2>3, <2>4, <2>5, LiveFinite
  <2> QED BY <2>1, <2>2, <2>6 DEF TicketsCovered
<1>8. ASSUME RemoveReturn PROVE TicketsCovered'
  <2>1. LiveWorkers = {}
    BY <1>8, EmptyDistinct DEF RemoveReturn, WorkersListed, LiveWorkers, Live
  <2>2. stop_workers = 0
    BY <2>1, FS_EmptySet DEF TicketsCovered, TypeOK
  <2> QED BY <1>2, <1>8, <2>2 DEF RemoveReturn
<1>9. ASSUME Destroy \/ DestroyNotify \/ DestroyReturn PROVE TicketsCovered'
  <2>1. stop_workers = 0
    BY <1>9 DEF Destroy, DestroyNotify, DestroyReturn, TicketsCovered, TypeOK
  <2> QED BY <1>2, <1>9, <2>1 DEF Destroy, DestroyNotify, DestroyReturn
<1> QED BY <1>1, <1>3, <1>4, <1>5, <1>6, <1>7, <1>8, <1>9, ThreadSteps, OwnerSteps

\* The pcs of the clients: only their own calls and a wakeup change them.
LEMMA ClientsIdle ==
    ASSUME TypeOK, [Next]_vars, ~Alive, \A c \in Client : pc[c] = "idle"
    PROVE  \A c \in Client : pc'[c] = "idle"
<1> USE ThreadAssumption DEF Thread
<1>0. /\ Raced(pc) \in [Thread -> ClientPC \cup WorkerPC]
      /\ \A c \in Client : Raced(pc)[c] = "idle"
  BY RacedType DEF TypeOK
<1>1. ASSUME NEW th \in Thread, NEW t \in Task,
             EnqueueReject(th, t) \/ EnqueueAccept(th, t)
      PROVE  \A c \in Client : pc'[c] = "idle"
  <2>1. th \in Worker
    BY <1>1 DEF EnqueueReject, EnqueueAccept, MayCall
  <2> QED BY <1>0, <1>1, <2>1 DEF EnqueueReject, EnqueueAccept, TypeOK
<1>2. ASSUME NEW th \in Thread, Notify(th) PROVE \A c \in Client : pc'[c] = "idle"
  <2> DEFINE p == [pc EXCEPT ![th] = IF th \in Client THEN "idle" ELSE "running"]
  <2>1. /\ p \in [Thread -> ClientPC \cup WorkerPC]
        /\ \A c \in Client : p[c] = "idle"
        /\ \A c \in Client : p[c] \in ClientPC
        /\ \A w \in Worker : p[w] \in WorkerPC
    BY <1>2 DEF Notify, TypeOK, ClientPC, WorkerPC
  <2>2. pc' \in Woken(p)
    BY <1>2 DEF Notify
  <2> HIDE DEF p
  <2> QED BY <2>1, <2>2, WokenType
<1>3. ASSUME NEW th \in Thread, SpuriousWake(th) PROVE \A c \in Client : pc'[c] = "idle"
  BY <1>3 DEF SpuriousWake, TypeOK
<1>4. ASSUME NEW w \in Worker, WorkerStep(w) PROVE \A c \in Client : pc'[c] = "idle"
  <2>1. CASE WorkerTake(w)
    BY <1>0, <2>1 DEF WorkerTake
  <2>2. CASE WorkerStop(w) \/ WorkerRetire(w) \/ WorkerSleep(w) \/ WorkerPeek(w)
             \/ WorkerFinish(w)
    BY <2>2 DEF WorkerStop, WorkerRetire, WorkerSleep, WorkerPeek, WorkerFinish, TypeOK
  <2> QED BY <1>4, <2>1, <2>2 DEF WorkerStep
<1>5. ASSUME NEW c \in Client, ClientStep(c) PROVE FALSE
  BY <1>5 DEF ClientStep, Wait, WaitRecheck, CleanQueue, SetQueueLimit
<1>6. ASSUME OwnerStep PROVE \A c \in Client : pc'[c] = "idle"
  BY <1>6 DEF OwnerStep, Alive, AddThread, RemoveThreads, RemoveNotify, RemoveJoin,
              RemoveReturn, Destroy, DestroyNotify, AllWoken, DestroyReturn, TypeOK
<1> QED BY <1>1, <1>2, <1>3, <1>4, <1>5, <1>6 DEF Next, Destroyed, vars

LEMMA PhasesNext ==
    ASSUME PoolInv, TypeOK', [Next]_vars PROVE Phases'
<1> USE ThreadAssumption DEF PoolInv, Thread
<1>1. (stop <=> owner \in {"stopping", "destroying", "destroyed"})'
  <2>1. CASE Destroy
    BY <2>1 DEF Destroy
  <2>2. CASE DestroyNotify \/ DestroyReturn
    BY <2>2 DEF DestroyNotify, DestroyReturn, Phases
  <2>3. ASSUME NEW count \in 0..(Cardinality(Worker) + 1), RemoveThreads(count)
        PROVE (stop <=> owner \in {"stopping", "destroying", "destroyed"})'
    BY <2>3 DEF RemoveThreads, Phases
  <2>4. CASE RemoveReturn
    BY <2>4 DEF RemoveReturn, Phases
  <2>5. CASE stop' = stop /\ owner' = owner
    BY <2>5 DEF Phases
  <2> QED BY <2>1, <2>2, <2>3, <2>4, <2>5, OwnerSteps DEF SameOwner, WorkerRetire
<1>2. (stop => \A c \in Client : pc[c] = "idle")'
  <2>1. CASE Destroy
    BY <2>1 DEF Destroy
  <2>2. CASE ~Destroy
    <3>1. stop' = stop
      BY <2>2, OwnerSteps DEF SameOwner, WorkerRetire, RemoveThreads, RemoveReturn,
                              DestroyNotify, DestroyReturn
    <3>2. stop => ~Alive
      BY DEF Phases, Alive
    <3> QED BY <3>1, <3>2, ClientsIdle DEF Phases
  <2> QED BY <2>1, <2>2
<1>3. (owner = "idle" => \A w \in Worker : pc[w] # "exited")'
  <2>1. CASE RemoveReturn
    BY <2>1, EmptyDistinct DEF RemoveReturn, WorkersListed
  <2>2. CASE ~RemoveReturn
    <3> SUFFICES ASSUME owner' = "idle" PROVE \A w \in Worker : pc'[w] # "exited"
      OBVIOUS
    <3>1. owner = "idle"
      BY <2>2, OwnerSteps DEF SameOwner, WorkerRetire, RemoveThreads, Destroy,
                              DestroyNotify, DestroyReturn
    <3>2. ~stop /\ stop_workers = 0 /\ \A w \in Worker : pc[w] # "exited"
      BY <3>1 DEF Phases, TicketsCovered, TypeOK
    <3>3. CASE \E w \in Worker : AddThread(w)
      BY <3>2, <3>3 DEF AddThread, TypeOK
    <3>4. CASE SameThreads
      BY <3>2, <3>4 DEF SameThreads
    <3> QED BY <3>1, <3>2, <3>3, <3>4, ThreadSteps
            DEF WorkerStop, WorkerRetire, HasTicket, RemoveJoin
  <2> QED BY <2>1, <2>2
<1>4. (owner = "destroyed" => tasks = <<>> /\ LiveWorkers = {})'
  <2>1. CASE DestroyReturn
    BY <2>1 DEF DestroyReturn, AllJoined, WorkersListed, LiveWorkers, Live
  <2>2. CASE ~DestroyReturn
    <3> SUFFICES ASSUME owner' = "destroyed" PROVE tasks' = <<>> /\ LiveWorkers' = {}
      OBVIOUS
    <3>1. owner = "destroyed"
      BY <2>2, OwnerSteps DEF SameOwner, WorkerRetire, RemoveThreads, RemoveReturn,
                              Destroy, DestroyNotify
    <3>2. /\ stop /\ ~Alive /\ tasks = <<>>
          /\ \A w \in Worker : pc[w] \in {"none", "exited"}
          /\ \A c \in Client : pc[c] = "idle"
      BY <3>1 DEF Phases, Alive, LiveWorkers, Live
    <3>3. ~\E w \in Worker : WorkerStep(w) \/ AddThread(w)
      BY <3>1, <3>2 DEF WorkerStep, WorkerStop, WorkerRetire, WorkerTake, WorkerSleep,
                        WorkerPeek, WorkerFinish, AddThread
    <3>4. SameThreads
      BY <3>1, <3>3, ThreadSteps DEF WorkerStep, RemoveJoin
    <3>5. tasks' = tasks
      BY <2>2, <3>2, <3>3
         DEF Next, vars, EnqueueReject, EnqueueAccept, Notify, SpuriousWake,
             ClientStep, Wait, WaitRecheck, CleanQueue, SetQueueLimit,
             OwnerStep, RemoveThreads, RemoveNotify, RemoveJoin,
             RemoveReturn, Destroy, DestroyNotify, Destroyed
    <3> QED BY <3>2, <3>4, <3>5 DEF SameThreads, LiveWorkers, Live
  <2> QED BY <2>1, <2>2
<1> QED BY <1>1, <1>2, <1>3, <1>4 DEF Phases

LEMMA PoolInvInit == Init => PoolInv
<1> SUFFICES ASSUME Init PROVE PoolInv
  OBVIOUS
<1>1. TypeOK
  BY TypeInit
<1>2. WorkersListed
  BY ThreadAssumption, EmptyDistinct DEF Init, WorkersListed, Thread
<1>3. Phases
  BY ThreadAssumption DEF Init, Phases, Thread
<1>4. TicketsCovered
  BY LiveFinite DEF Init, TicketsCovered
<1> QED BY <1>1, <1>2, <1>3, <1>4 DEF PoolInv

LEMMA PoolInvNext == PoolInv /\ [Next]_vars => PoolInv'
  BY TypeNext, WorkersListedNext, TicketsNext, PhasesNext DEF PoolInv

\* remove_threads never leaves a ticket behind and never asks for more
\* workers than are alive.
THEOREM TicketsAreCovered == Spec => []TicketsCovered
<1>1. PoolInv => TicketsCovered
  BY DEF PoolInv
<1> QED BY <1>1, PoolInvInit, PoolInvNext, PTL DEF Spec

\* After the destructor no thread is live and no future is pending.
THEOREM DestructionIsQuiet == Spec => []DestroyedIsQuiet
<1>1. TaskInv /\ PoolInv => DestroyedIsQuiet
  <2> SUFFICES ASSUME TaskInv, PoolInv, owner = "destroyed"
               PROVE  LiveWorkers = {} /\ \A t \in Task : future[t] # "pending"
    BY DEF DestroyedIsQuiet
  <2>1. tasks = <<>> /\ LiveWorkers = {}
    BY DEF PoolInv, Phases
  <2>2. \A w \in Worker : held[w] = NoTask
    BY <2>1 DEF TaskInv, HeldIsBusy, Busy, LiveWorkers, Live
  <2> QED BY <2>1, <2>2, EmptyDistinct, TaskAssumption DEF TaskInv, TaskOwnership
<1> QED BY <1>1, TaskInvInit, TaskInvNext, PoolInvInit, PoolInvNext, PTL DEF Spec

-----------------------------------------------------------------------------
(* Wakeups.  NoLostWakeup counts who is awake or about to notify.  It is   *)
(* not inductive: a worker in its task may enqueue, so a busy worker counts *)
(* as one piece of work to come; and a caller asleep in wait() can swallow *)
(* a notify_one (WaitReturns), so nobody may be inside wait().             *)

AwakeIn(p) == {w \in Worker : p[w] \notin {"none", "exited", "asleep"}}
NotifierIn(p) == {c \in Client : p[c] = "notifying"}
SleeperIn(p) == \E w \in Worker : p[w] = "asleep"
BusyIn(p) == \E w \in Worker : p[w] \in Busy

Wakers == Cardinality(AwakeIn(pc)) + Cardinality(NotifierIn(pc)) + toNotify
Work == stop_workers + (IF tasks # <<>> \/ BusyIn(pc) THEN 1 ELSE 0)

NobodyWaits == \A c \in Client : pc[c] \in {"idle", "notifying"}

WakeInv ==
    /\ IsFiniteSet(NotifierIn(pc))
    /\ owner # "removing" => toNotify = 0
    /\ (~stop /\ SleeperIn(pc)) => Wakers >= Work

LEMMA AwakeFinite ==
    ASSUME NEW p
    PROVE  IsFiniteSet(AwakeIn(p)) /\ Cardinality(AwakeIn(p)) \in Nat
<1>1. AwakeIn(p) \subseteq Worker
  BY DEF AwakeIn
<1> QED BY <1>1, ThreadAssumption, FS_Subset, FS_CardinalityType

\* A worker that wakes or starts is one more awake.
LEMMA OneMoreAwake ==
    ASSUME NEW p, NEW q, NEW w \in Worker,
           p[w] \in {"none", "exited", "asleep"}, q[w] \notin {"none", "exited", "asleep"},
           \A v \in Worker \ {w} : q[v] = p[v]
    PROVE  Cardinality(AwakeIn(q)) = Cardinality(AwakeIn(p)) + 1
<1>1. AwakeIn(q) = AwakeIn(p) \cup {w} /\ w \notin AwakeIn(p)
  BY DEF AwakeIn
<1> QED BY <1>1, AwakeFinite, FS_AddElement

\* A worker that sleeps or ends is one less awake.
LEMMA OneLessAwake ==
    ASSUME NEW p, NEW q, NEW w \in Worker,
           p[w] \notin {"none", "exited", "asleep"}, q[w] \in {"none", "exited", "asleep"},
           \A v \in Worker \ {w} : q[v] = p[v]
    PROVE  Cardinality(AwakeIn(q)) = Cardinality(AwakeIn(p)) - 1
<1>1. AwakeIn(q) = AwakeIn(p) \ {w} /\ w \in AwakeIn(p)
  BY DEF AwakeIn
<1> QED BY <1>1, AwakeFinite, FS_RemoveElement

\* While only workers sleep, notify_one wakes a worker if one sleeps.
LEMMA WokenCounts ==
    ASSUME NEW p \in [Thread -> ClientPC \cup WorkerPC], NEW q \in Woken(p),
           \A c \in Client : p[c] # "asleep"
    PROVE  /\ \A c \in Client : q[c] = p[c]
           /\ \A w \in Worker : q[w] \in Busy <=> p[w] \in Busy
           /\ \/ q = p /\ ~SleeperIn(p)
              \/ /\ SleeperIn(p)
                 /\ Cardinality(AwakeIn(q)) = Cardinality(AwakeIn(p)) + 1
<1> USE ThreadAssumption DEF Thread, Busy
<1>1. CASE q = p /\ ~SleeperIn(p)
  BY <1>1
<1>2. CASE \E w \in Worker : p[w] = "asleep" /\ q = [p EXCEPT ![w] = "ready"]
  <2>1. PICK w \in Worker : p[w] = "asleep" /\ q = [p EXCEPT ![w] = "ready"]
    BY <1>2
  <2>2. q[w] = "ready" /\ \A th \in Thread \ {w} : q[th] = p[th]
    BY <2>1
  <2>3. Cardinality(AwakeIn(q)) = Cardinality(AwakeIn(p)) + 1
    BY <2>1, <2>2, OneMoreAwake
  <2>4. SleeperIn(p)
    BY <2>1 DEF SleeperIn
  <2> QED BY <2>1, <2>2, <2>3, <2>4
<1> QED BY <1>1, <1>2 DEF Woken, SleeperIn

\* What a write of tasks does to the pcs leaves every count alone.
LEMMA RacedCounts ==
    ASSUME TypeOK
    PROVE  /\ Raced(pc) \in [Thread -> ClientPC \cup WorkerPC]
           /\ \A c \in Client : Raced(pc)[c] = pc[c]
           /\ \A v \in Thread : Raced(pc)[v] = pc[v]
                                \/ (pc[v] = "popped" /\ Raced(pc)[v] = "raced")
           /\ AwakeIn(Raced(pc)) = AwakeIn(pc)
           /\ NotifierIn(Raced(pc)) = NotifierIn(pc)
           /\ SleeperIn(Raced(pc)) <=> SleeperIn(pc)
           /\ BusyIn(Raced(pc)) <=> BusyIn(pc)
<1>1. /\ Raced(pc) \in [Thread -> ClientPC \cup WorkerPC]
      /\ \A c \in Client : Raced(pc)[c] = pc[c]
      /\ \A v \in Thread : Raced(pc)[v] = pc[v]
                           \/ (pc[v] = "popped" /\ Raced(pc)[v] = "raced")
  BY RacedType DEF TypeOK
<1> QED BY <1>1 DEF AwakeIn, NotifierIn, SleeperIn, BusyIn, Busy, Thread

LEMMA WakeInvNext ==
    ASSUME PoolInv, TypeOK', WakeInv, NobodyWaits, NobodyWaits', [Next]_vars
    PROVE  WakeInv'
<1> USE ThreadAssumption DEF Thread
<1>a. /\ TypeOK
      /\ stop_workers \in Nat /\ toNotify \in Nat
      /\ pc \in [Thread -> ClientPC \cup WorkerPC]
      /\ \A c \in Client : pc[c] # "asleep" /\ pc[c] # "ready"
  BY DEF PoolInv, TypeOK, NobodyWaits
<1>b. IsFiniteSet(NotifierIn(pc)) /\ Cardinality(NotifierIn(pc)) \in Nat
      /\ Cardinality(AwakeIn(pc)) \in Nat
  BY AwakeFinite, FS_CardinalityType DEF WakeInv
<1>c. Work \in Nat /\ Wakers \in Nat
  BY <1>a, <1>b DEF Work, Wakers
\* The steps that change only what is counted, and not for the worse.
<1>d. ASSUME UNCHANGED <<stop_workers, toNotify, owner, stop>>,
             AwakeIn(pc') = AwakeIn(pc), NotifierIn(pc') = NotifierIn(pc),
             SleeperIn(pc') <=> SleeperIn(pc),
             (tasks' # <<>> \/ BusyIn(pc')) => (tasks # <<>> \/ BusyIn(pc))
      PROVE  WakeInv'
  <2>1. Work' <= Work /\ Work' \in Nat
    BY <1>a, <1>d DEF Work
  <2>2. Wakers' = Wakers
    BY <1>d DEF Wakers
  <2>3. Wakers >= Work => Wakers >= Work'
    BY <1>c, <2>1
  <2> QED BY <1>d, <2>2, <2>3 DEF WakeInv
\* A step after which the destructor has begun.
<1>e. ASSUME stop', toNotify' = 0 \/ (owner' = "removing"), NotifierIn(pc') = NotifierIn(pc)
      PROVE  WakeInv'
  BY <1>e DEF WakeInv
<1>1. ASSUME NEW th \in Thread, NEW t \in Task, EnqueueReject(th, t) PROVE WakeInv'
  BY <1>1, <1>d DEF EnqueueReject
<1>2. ASSUME NEW th \in Thread, NEW t \in Task, EnqueueAccept(th, t) PROVE WakeInv'
  <2>1. /\ pc' = [Raced(pc) EXCEPT ![th] = "notifying"]
        /\ UNCHANGED <<stop, stop_workers, owner, toNotify>>
        /\ (th \in Client /\ pc[th] = "idle") \/ (th \in Worker /\ pc[th] = "running")
    BY <1>2 DEF EnqueueAccept, MayCall
  <2>2. /\ Raced(pc) \in [Thread -> ClientPC \cup WorkerPC]
        /\ \A c \in Client : Raced(pc)[c] = pc[c]
        /\ \A v \in Thread : Raced(pc)[v] = pc[v]
                             \/ (pc[v] = "popped" /\ Raced(pc)[v] = "raced")
    BY <1>a, RacedCounts
  <2>3. CASE th \in Client /\ pc[th] = "idle"
    <3>1. /\ AwakeIn(pc') = AwakeIn(pc)
          /\ SleeperIn(pc') <=> SleeperIn(pc)
          /\ NotifierIn(pc') = NotifierIn(pc) \cup {th} /\ th \notin NotifierIn(pc)
      BY <2>1, <2>2, <2>3 DEF AwakeIn, SleeperIn, NotifierIn
    <3>2. /\ IsFiniteSet(NotifierIn(pc'))
          /\ Cardinality(NotifierIn(pc')) = Cardinality(NotifierIn(pc)) + 1
      BY <1>b, <3>1, FS_AddElement
    <3>3. Wakers' = Wakers + 1
      BY <1>a, <1>b, <2>1, <3>1, <3>2 DEF Wakers
    <3>4. Work' <= Work + 1 /\ Work' \in Nat
      BY <1>a, <2>1 DEF Work
    <3>5. Wakers >= Work => Wakers' >= Work'
      BY <1>c, <3>3, <3>4
    <3> QED BY <2>1, <3>1, <3>2, <3>5 DEF WakeInv
  <2>4. CASE th \in Worker /\ pc[th] = "running"
    <3>1. /\ AwakeIn(pc') = AwakeIn(pc)
          /\ SleeperIn(pc') <=> SleeperIn(pc)
          /\ NotifierIn(pc') = NotifierIn(pc)
      BY <2>1, <2>2, <2>4 DEF AwakeIn, SleeperIn, NotifierIn
    <3>2. BusyIn(pc)
      BY <2>4 DEF BusyIn, Busy
    <3> QED BY <1>d, <2>1, <3>1, <3>2
  <2> QED BY <2>1, <2>3, <2>4
<1>3. ASSUME NEW th \in Thread, Notify(th) PROVE WakeInv'
  <2> DEFINE p == [pc EXCEPT ![th] = IF th \in Client THEN "idle" ELSE "running"]
  <2>1. /\ p \in [Thread -> ClientPC \cup WorkerPC]
        /\ \A c \in Client : p[c] # "asleep"
        /\ pc' \in Woken(p)
        /\ pc[th] = "notifying"
        /\ UNCHANGED <<tasks, stop, stop_workers, owner, toNotify>>
    BY <1>3, <1>a DEF Notify, ClientPC, WorkerPC
  <2>2. /\ AwakeIn(p) = AwakeIn(pc)
        /\ SleeperIn(p) <=> SleeperIn(pc)
        /\ \A w \in Worker : p[w] \in Busy <=> pc[w] \in Busy
    BY <1>a, <2>1 DEF AwakeIn, SleeperIn, Busy
  <2>3. NotifierIn(p) = NotifierIn(pc) \ {th}
    BY <1>a, <2>1 DEF NotifierIn
  <2>4. th \in Client <=> th \in NotifierIn(pc)
    BY <2>1 DEF NotifierIn
  <2> HIDE DEF p
  <2>5. /\ \A c \in Client : pc'[c] = p[c]
        /\ \A w \in Worker : pc'[w] \in Busy <=> p[w] \in Busy
        /\ \/ pc' = p /\ ~SleeperIn(p)
           \/ SleeperIn(p) /\ Cardinality(AwakeIn(pc')) = Cardinality(AwakeIn(p)) + 1
    BY <2>1, WokenCounts
  <2>6. NotifierIn(pc') = NotifierIn(pc) \ {th}
    BY <2>3, <2>5 DEF NotifierIn
  <2>7. /\ IsFiniteSet(NotifierIn(pc'))
        /\ Cardinality(NotifierIn(pc')) \in Nat
        /\ Cardinality(NotifierIn(pc')) >= Cardinality(NotifierIn(pc)) - 1
    <3>1. /\ IsFiniteSet(NotifierIn(pc'))
          /\ Cardinality(NotifierIn(pc')) = IF th \in NotifierIn(pc)
                THEN Cardinality(NotifierIn(pc)) - 1 ELSE Cardinality(NotifierIn(pc))
      BY <1>b, <2>6, FS_RemoveElement
    <3>2. Cardinality(NotifierIn(pc')) \in Nat
      BY <3>1, FS_CardinalityType
    <3> QED BY <1>b, <3>1, <3>2
  <2>8. BusyIn(pc') <=> BusyIn(pc)
    BY <2>2, <2>5 DEF BusyIn
  <2>9. Work' = Work
    BY <2>1, <2>8 DEF Work
  <2>10. SleeperIn(pc') => Wakers' >= Wakers
    <3>1. CASE SleeperIn(p) /\ Cardinality(AwakeIn(pc')) = Cardinality(AwakeIn(p)) + 1
      BY <1>a, <1>b, <2>1, <2>2, <2>7, <3>1 DEF Wakers
    <3> QED BY <2>5, <3>1
  <2>11. SleeperIn(pc') => SleeperIn(pc)
    BY <2>2, <2>5
  <2>12. SleeperIn(pc') => Wakers' \in Nat
    BY <1>a, <1>b, <2>1, <2>7, AwakeFinite DEF Wakers
  <2> QED BY <1>c, <2>1, <2>7, <2>9, <2>10, <2>11, <2>12 DEF WakeInv
<1>4. ASSUME NEW th \in Thread, SpuriousWake(th) PROVE WakeInv'
  <2>1. /\ th \in Worker /\ pc[th] = "asleep" /\ pc' = [pc EXCEPT ![th] = "ready"]
        /\ UNCHANGED <<tasks, stop, stop_workers, owner, toNotify>>
    BY <1>4, <1>a DEF SpuriousWake
  <2>2. pc'[th] = "ready" /\ \A v \in Thread \ {th} : pc'[v] = pc[v]
    BY <1>a, <2>1
  <2>3. Cardinality(AwakeIn(pc')) = Cardinality(AwakeIn(pc)) + 1
    BY <2>1, <2>2, OneMoreAwake
  <2>4. NotifierIn(pc') = NotifierIn(pc) /\ (BusyIn(pc') <=> BusyIn(pc)) /\ SleeperIn(pc)
    BY <2>1, <2>2 DEF NotifierIn, BusyIn, Busy, SleeperIn
  <2>5. Wakers' = Wakers + 1 /\ Work' = Work
    BY <1>a, <1>b, <2>1, <2>3, <2>4 DEF Wakers, Work
  <2> QED BY <1>c, <2>1, <2>4, <2>5 DEF WakeInv
<1>5. ASSUME NEW w \in Worker, WorkerStep(w) PROVE WakeInv'
  <2>0. NotifierIn(pc') = NotifierIn(pc)
    <3>1. CASE WorkerTake(w)
      BY <1>a, <3>1, RacedCounts DEF WorkerTake, NotifierIn
    <3>2. CASE WorkerStop(w) \/ WorkerRetire(w) \/ WorkerSleep(w) \/ WorkerPeek(w)
               \/ WorkerFinish(w)
      BY <1>a, <3>2 DEF WorkerStop, WorkerRetire, WorkerSleep, WorkerPeek,
                        WorkerFinish, NotifierIn
    <3> QED BY <1>5, <3>1, <3>2 DEF WorkerStep
  <2>1. CASE WorkerStop(w)
    BY <2>0, <2>1, <1>e DEF WorkerStop, WakeInv
  <2>2. CASE WorkerRetire(w)
    <3>1. /\ pc[w] = "ready" /\ pc' = [pc EXCEPT ![w] = "exited"]
          /\ stop_workers > 0 /\ stop_workers' = stop_workers - 1
          /\ UNCHANGED <<tasks, stop, owner, toNotify>>
      BY <2>2 DEF WorkerRetire, HasTicket
    <3>2. pc'[w] = "exited" /\ \A v \in Thread \ {w} : pc'[v] = pc[v]
      BY <1>a, <3>1
    <3>3. Cardinality(AwakeIn(pc')) = Cardinality(AwakeIn(pc)) - 1
      BY <3>1, <3>2, OneLessAwake
    <3>4. (SleeperIn(pc') <=> SleeperIn(pc)) /\ (BusyIn(pc') <=> BusyIn(pc))
      BY <3>1, <3>2 DEF SleeperIn, BusyIn, Busy
    <3>5. Wakers' = Wakers - 1 /\ Work' = Work - 1
      BY <1>a, <1>b, <2>0, <3>1, <3>3, <3>4 DEF Wakers, Work
    <3> QED BY <1>c, <2>0, <3>1, <3>4, <3>5 DEF WakeInv
  <2>3. CASE WorkerTake(w)
    <3>1. /\ pc[w] = "ready" /\ pc' = [Raced(pc) EXCEPT ![w] = "popped"]
          /\ stop_workers = 0 /\ UNCHANGED <<stop, stop_workers, owner, toNotify>>
      BY <1>a, <2>3 DEF WorkerTake, HasTicket
    <3>2. AwakeIn(pc') = AwakeIn(pc) /\ w \in AwakeIn(pc)
      BY <1>a, <3>1, RacedCounts DEF AwakeIn
    <3>3. Cardinality(AwakeIn(pc)) # 0
      BY <3>2, AwakeFinite, FS_EmptySet
    <3>4. Wakers' >= 1 /\ Work' <= 1 /\ Wakers' \in Nat /\ Work' \in Nat
      BY <1>a, <1>b, <2>0, <3>1, <3>2, <3>3 DEF Wakers, Work
    <3> QED BY <2>0, <3>1, <3>4 DEF WakeInv
  <2>4. CASE WorkerSleep(w)
    <3>1. /\ pc[w] = "ready" /\ pc' = [pc EXCEPT ![w] = "asleep"] /\ tasks' = <<>>
          /\ stop_workers = 0 /\ UNCHANGED <<stop, stop_workers, owner, toNotify>>
      BY <1>a, <2>4 DEF WorkerSleep, HasTicket
    <3>2. BusyIn(pc') => AwakeIn(pc') # {}
      BY DEF BusyIn, Busy, AwakeIn
    <3>3. BusyIn(pc') => Cardinality(AwakeIn(pc')) # 0
      BY <3>2, AwakeFinite, FS_EmptySet
    <3>4. Wakers' >= Work'
      BY <1>a, <1>b, <2>0, <3>1, <3>3, AwakeFinite DEF Wakers, Work
    <3> QED BY <2>0, <3>1, <3>4 DEF WakeInv
  <2>5. CASE WorkerPeek(w)
    <3>1. /\ UNCHANGED <<tasks, stop, stop_workers, owner, toNotify>>
          /\ pc[w] \in {"popped", "raced"} /\ pc'[w] \in {"notifying", "running"}
          /\ \A v \in Thread \ {w} : pc'[v] = pc[v]
      BY <1>a, <2>5 DEF WorkerPeek
    <3>2. AwakeIn(pc') = AwakeIn(pc) /\ (SleeperIn(pc') <=> SleeperIn(pc)) /\ BusyIn(pc)
      BY <3>1 DEF AwakeIn, SleeperIn, BusyIn, Busy
    <3> QED BY <1>d, <2>0, <3>1, <3>2
  <2>6. CASE WorkerFinish(w)
    <3>1. /\ UNCHANGED <<tasks, stop, stop_workers, owner, toNotify>>
          /\ pc[w] = "running" /\ pc'[w] = "ready"
          /\ \A v \in Thread \ {w} : pc'[v] = pc[v]
      BY <1>a, <2>6 DEF WorkerFinish
    <3>2. AwakeIn(pc') = AwakeIn(pc) /\ (SleeperIn(pc') <=> SleeperIn(pc)) /\ BusyIn(pc)
      BY <3>1 DEF AwakeIn, SleeperIn, BusyIn, Busy
    <3> QED BY <1>d, <2>0, <3>1, <3>2
  <2> QED BY <1>5, <2>1, <2>2, <2>3, <2>4, <2>5, <2>6 DEF WorkerStep
<1>6. ASSUME NEW c \in Client, ClientStep(c) PROVE WakeInv'
  <2>1. CASE Wait(c) \/ WaitRecheck(c)
    <3>1. CASE Wait(c)
      BY <1>a, <3>1 DEF Wait, NobodyWaits
    <3> QED BY <1>a, <2>1, <3>1 DEF WaitRecheck
  <2>2. CASE CleanQueue(c)
    <3>1. tasks' = <<>> /\ pc' = Raced(pc)
          /\ UNCHANGED <<stop, stop_workers, owner, toNotify>>
      BY <2>2 DEF CleanQueue
    <3>2. /\ AwakeIn(pc') = AwakeIn(pc) /\ NotifierIn(pc') = NotifierIn(pc)
          /\ SleeperIn(pc') <=> SleeperIn(pc)
          /\ BusyIn(pc') <=> BusyIn(pc)
      BY <1>a, <3>1, RacedCounts
    <3> QED BY <1>d, <3>1, <3>2
  <2>3. CASE \E n \in Limits : SetQueueLimit(c, n)
    BY <1>d, <2>3 DEF SetQueueLimit
  <2> QED BY <1>6, <2>1, <2>2, <2>3 DEF ClientStep
<1>7. ASSUME OwnerStep PROVE WakeInv'
  <2>1. ASSUME NEW w \in Worker, AddThread(w) PROVE WakeInv'
    <3>1. /\ pc[w] = "none" /\ pc' = [pc EXCEPT ![w] = "ready"]
          /\ UNCHANGED <<tasks, stop, stop_workers, owner, toNotify>>
      BY <2>1 DEF AddThread
    <3>2. pc'[w] = "ready" /\ \A v \in Thread \ {w} : pc'[v] = pc[v]
      BY <1>a, <3>1
    <3>3. Cardinality(AwakeIn(pc')) = Cardinality(AwakeIn(pc)) + 1
      BY <3>1, <3>2, OneMoreAwake
    <3>4. /\ NotifierIn(pc') = NotifierIn(pc)
          /\ BusyIn(pc') <=> BusyIn(pc)
          /\ SleeperIn(pc') <=> SleeperIn(pc)
      BY <3>1, <3>2 DEF NotifierIn, BusyIn, Busy, SleeperIn
    <3>5. Wakers' = Wakers + 1 /\ Work' = Work
      BY <1>a, <1>b, <3>1, <3>3, <3>4 DEF Wakers, Work
    <3> QED BY <1>c, <3>1, <3>4, <3>5 DEF WakeInv
  <2>2. ASSUME NEW count \in 0..(Cardinality(Worker) + 1), RemoveThreads(count)
        PROVE  WakeInv'
    <3>1. /\ owner = "idle" /\ owner' = "removing" /\ UNCHANGED <<tasks, stop, pc>>
          /\ stop_workers' = stop_workers + Capped(count) /\ toNotify' = Capped(count)
      BY <2>2 DEF RemoveThreads
    <3>2. toNotify = 0
      BY <3>1 DEF WakeInv
    <3>3. Capped(count) \in Nat
      BY <3>1, TypeOK' DEF TypeOK
    <3>4. Wakers' = Wakers + Capped(count) /\ Work' = Work + Capped(count)
      BY <1>a, <1>b, <3>1, <3>2, <3>3 DEF Wakers, Work
    <3>5. Wakers >= Work => Wakers' >= Work'
      BY <1>c, <3>3, <3>4
    <3> QED BY <3>1, <3>5 DEF WakeInv
  <2>3. CASE RemoveNotify
    <3>1. /\ owner' = "removing" /\ toNotify' = toNotify - 1 /\ pc' \in Woken(pc)
          /\ UNCHANGED <<tasks, stop, stop_workers>>
      BY <2>3 DEF RemoveNotify
    <3>2. /\ \A c \in Client : pc'[c] = pc[c]
          /\ \A w \in Worker : pc'[w] \in Busy <=> pc[w] \in Busy
          /\ \/ pc' = pc /\ ~SleeperIn(pc)
             \/ SleeperIn(pc) /\ Cardinality(AwakeIn(pc')) = Cardinality(AwakeIn(pc)) + 1
      BY <1>a, <3>1, WokenCounts
    <3>3. NotifierIn(pc') = NotifierIn(pc) /\ (BusyIn(pc') <=> BusyIn(pc))
      BY <3>2 DEF NotifierIn, BusyIn
    <3>4. Work' = Work
      BY <3>1, <3>3 DEF Work
    <3>5. SleeperIn(pc') => SleeperIn(pc) /\ Wakers' = Wakers
      BY <1>a, <1>b, <3>1, <3>2, <3>3 DEF Wakers
    <3> QED BY <3>1, <3>3, <3>4, <3>5 DEF WakeInv
  <2>4. CASE RemoveJoin
    <3>1. /\ Head(workers) \in Worker /\ pc[Head(workers)] = "exited"
          /\ pc' = [pc EXCEPT ![Head(workers)] = "none"]
          /\ UNCHANGED <<tasks, stop, stop_workers, owner, toNotify>>
      BY <1>a, <2>4, HeadTailProperties DEF RemoveJoin, TypeOK
    <3>2. /\ AwakeIn(pc') = AwakeIn(pc) /\ NotifierIn(pc') = NotifierIn(pc)
          /\ SleeperIn(pc') <=> SleeperIn(pc)
          /\ BusyIn(pc') <=> BusyIn(pc)
      BY <1>a, <3>1 DEF AwakeIn, NotifierIn, SleeperIn, BusyIn, Busy
    <3> QED BY <1>d, <3>1, <3>2
  <2>5. CASE RemoveReturn
    BY <1>b, <2>5 DEF RemoveReturn, WakeInv, Wakers, Work
  <2>6. CASE Destroy
    BY <1>e, <2>6 DEF Destroy, WakeInv
  <2>7. CASE DestroyNotify
    <3>1. NotifierIn(pc') = NotifierIn(pc)
      BY <1>a, <2>7 DEF DestroyNotify, AllWoken, NotifierIn
    <3> QED BY <1>e, <2>7, <3>1 DEF DestroyNotify, WakeInv, PoolInv, Phases
  <2>8. CASE DestroyReturn
    BY <1>e, <2>8 DEF DestroyReturn, WakeInv, PoolInv, Phases
  <2> QED BY <1>7, <2>1, <2>2, <2>3, <2>4, <2>5, <2>6, <2>7, <2>8 DEF OwnerStep
<1>8. ASSUME UNCHANGED vars PROVE WakeInv'
  BY <1>8, <1>d DEF vars
<1> QED BY <1>1, <1>2, <1>3, <1>4, <1>5, <1>6, <1>7, <1>8 DEF Next, Destroyed

LEMMA WakeInvInit == Init => WakeInv
<1> SUFFICES ASSUME Init PROVE WakeInv
  OBVIOUS
<1>1. NotifierIn(pc) = {} /\ ~SleeperIn(pc)
  BY ThreadAssumption DEF Init, NotifierIn, SleeperIn, Thread
<1> QED BY <1>1, FS_EmptySet DEF Init, WakeInv

\* Without callers of wait() no thread but a worker ever sleeps.
LEMMA NobodyWaitsNext ==
    ASSUME Waiter = {}, TypeOK, NobodyWaits, [Next]_vars PROVE NobodyWaits'
<1> USE ThreadAssumption DEF Thread, NobodyWaits
<1>1. ASSUME NEW th \in Thread, NEW t \in Task,
             EnqueueReject(th, t) \/ EnqueueAccept(th, t)
      PROVE  NobodyWaits'
  <2>1. CASE EnqueueAccept(th, t)
    BY <2>1, RacedCounts DEF EnqueueAccept
  <2> QED BY <1>1, <2>1 DEF EnqueueReject
<1>2. ASSUME NEW th \in Thread, Notify(th) PROVE NobodyWaits'
  <2> DEFINE p == [pc EXCEPT ![th] = IF th \in Client THEN "idle" ELSE "running"]
  <2>1. /\ p \in [Thread -> ClientPC \cup WorkerPC]
        /\ \A c \in Client : p[c] \in {"idle", "notifying"}
        /\ pc' \in Woken(p)
    BY <1>2 DEF Notify, TypeOK, ClientPC, WorkerPC
  <2> HIDE DEF p
  <2> QED BY <2>1, WokenCounts
<1>3. ASSUME NEW th \in Thread, SpuriousWake(th) PROVE NobodyWaits'
  BY <1>3 DEF SpuriousWake, TypeOK
<1>4. ASSUME NEW w \in Worker, WorkerStep(w) PROVE NobodyWaits'
  <2>1. CASE WorkerTake(w)
    BY <2>1, RacedCounts DEF WorkerTake
  <2> QED BY <1>4, <2>1 DEF WorkerStep, WorkerStop, WorkerRetire, WorkerSleep,
                            WorkerPeek, WorkerFinish, TypeOK
<1>5. ASSUME NEW c \in Client, ClientStep(c) PROVE NobodyWaits'
  <2>1. CASE CleanQueue(c)
    BY <2>1, RacedCounts DEF CleanQueue
  <2> QED BY <1>5, <2>1 DEF ClientStep, Wait, WaitRecheck, SetQueueLimit
<1>6. ASSUME OwnerStep PROVE NobodyWaits'
  <2>1. CASE RemoveNotify
    BY <2>1, WokenCounts DEF RemoveNotify, TypeOK
  <2>2. CASE RemoveJoin
    <3>1. Head(workers) \in Worker
      BY <2>2, HeadTailProperties DEF RemoveJoin, TypeOK
    <3> QED BY <2>2, <3>1 DEF RemoveJoin, TypeOK
  <2> QED BY <1>6, <2>1, <2>2 DEF OwnerStep, AddThread, RemoveThreads, RemoveReturn,
             Destroy, DestroyNotify, AllWoken, DestroyReturn, TypeOK
<1> QED BY <1>1, <1>2, <1>3, <1>4, <1>5, <1>6 DEF Next, Destroyed, vars

LEMMA WakeupsEnough == PoolInv /\ WakeInv => NoLostWakeup
<1> SUFFICES ASSUME PoolInv, WakeInv, ~stop, \E w \in Worker : pc[w] = "asleep"
             PROVE  Cardinality({w \in LiveWorkers : pc[w] # "asleep"})
                      + Cardinality({c \in Client : pc[c] = "notifying"}) + toNotify
                      >= stop_workers + (IF tasks = <<>> THEN 0 ELSE 1)
  BY DEF NoLostWakeup
<1>1. {w \in LiveWorkers : pc[w] # "asleep"} = AwakeIn(pc)
  BY DEF LiveWorkers, Live, AwakeIn
<1>2. {c \in Client : pc[c] = "notifying"} = NotifierIn(pc)
  BY DEF NotifierIn
<1>3. Wakers >= Work
  BY DEF WakeInv, SleeperIn
<1>4. /\ Cardinality(AwakeIn(pc)) \in Nat /\ Cardinality(NotifierIn(pc)) \in Nat
      /\ toNotify \in Nat /\ stop_workers \in Nat
  BY AwakeFinite, FS_CardinalityType DEF WakeInv, PoolInv, TypeOK
<1>5. Work >= stop_workers + (IF tasks = <<>> THEN 0 ELSE 1)
  BY <1>4 DEF Work
<1>6. Work \in Nat /\ Wakers \in Nat
  BY <1>4 DEF Work, Wakers
<1>7. Wakers >= stop_workers + (IF tasks = <<>> THEN 0 ELSE 1)
  BY <1>3, <1>4, <1>5, <1>6
<1>8. Wakers = Cardinality({w \in LiveWorkers : pc[w] # "asleep"})
                 + Cardinality({c \in Client : pc[c] = "notifying"}) + toNotify
  BY <1>1, <1>2 DEF Wakers
<1> HIDE DEF Wakers
<1> QED BY ONLY <1>7, <1>8

\* As long as no caller is inside wait(), no wakeup is lost among the workers:
\* the single condition variable is enough for the queue and for every ticket.
THEOREM WakeupsSuffice == Spec /\ []NobodyWaits => []NoLostWakeup
<1>1. PoolInv /\ WakeInv /\ NobodyWaits /\ NobodyWaits' /\ [Next]_vars => WakeInv'
  BY WakeInvNext, TypeNext DEF PoolInv
<1> QED BY <1>1, WakeInvInit, WakeupsEnough, PoolInvInit, PoolInvNext, PTL DEF Spec

\* In a program that never calls wait() no wakeup is ever lost.
THEOREM NoWaitNoLostWakeup == ASSUME Waiter = {} PROVE Spec => []NoLostWakeup
<1>1. Init => NobodyWaits
  BY ThreadAssumption DEF Init, NobodyWaits, Thread
<1>2. TypeOK /\ NobodyWaits /\ [Next]_vars => NobodyWaits'
  BY NobodyWaitsNext
<1> QED BY <1>1, <1>2, WakeupsSuffice, TypeInit, TypeNext, PTL DEF Spec

-----------------------------------------------------------------------------
(* Refinement: ThreadPool implements TaskQueue                             *)

Active == {held[w] : w \in Worker} \ {NoTask}

LEMMA RefinementInit == Init => Abstract!Init
<1> SUFFICES ASSUME Init PROVE Abstract!Init
  OBVIOUS
<1>1. {held[w] : w \in Worker} \ {NoTask} = {}
  BY DEF Init
<1> QED BY <1>1 DEF Init, Abstract!Init

LEMMA RefinementStep ==
    ASSUME TaskInv, [Next]_vars PROVE [Abstract!Next]_(Abstract!vars)
<1> USE DEF TaskInv
<1>1. ASSUME UNCHANGED <<tasks, held, future, m_queue_limit, stop>>
      PROVE  UNCHANGED Abstract!vars
  BY <1>1 DEF Abstract!vars
<1>2. ASSUME NEW th \in Thread, NEW t \in Task,
             EnqueueReject(th, t) \/ EnqueueAccept(th, t)
      PROVE  Abstract!Submit(t)
  BY <1>2 DEF EnqueueReject, EnqueueAccept, QueueFull, Abstract!Submit
<1>3. ASSUME NEW w \in Worker, WorkerTake(w) PROVE Abstract!Start
  <2>1. /\ ~stop /\ tasks # <<>> /\ tasks' = Tail(tasks)
        /\ held' = [held EXCEPT ![w] = Head(tasks)]
        /\ UNCHANGED <<future, m_queue_limit, stop>>
        /\ pc[w] = "ready"
    BY <1>3 DEF WorkerTake
  <2>2. held[w] = NoTask /\ Head(tasks) # NoTask
    BY <2>1, HeadTailProperties, TaskAssumption DEF HeldIsBusy, Busy, TypeOK
  <2>3. Active' = Active \cup {Head(tasks)}
    BY <2>1, <2>2 DEF Active, TypeOK
  <2> QED BY <2>1, <2>3 DEF Abstract!Start, Active
<1>4. ASSUME NEW w \in Worker, WorkerFinish(w)
      PROVE  \E t \in Task : Abstract!Finish(t)
  <2>1. /\ held' = [held EXCEPT ![w] = NoTask]
        /\ future' = [future EXCEPT ![held[w]] = "ready"]
        /\ UNCHANGED <<tasks, m_queue_limit, stop>>
        /\ held[w] # NoTask /\ held[w] \in Task
    BY <1>4 DEF WorkerFinish, HeldIsBusy, Busy, TypeOK
  <2>2. \A v \in Worker : v # w => held[v] # held[w]
    BY <2>1 DEF TaskOwnership
  <2>3. Active' = Active \ {held[w]} /\ held[w] \in Active
    BY <2>1, <2>2 DEF Active, TypeOK
  <2> QED BY <2>1, <2>3 DEF Abstract!Finish, Active
<1>5. ASSUME tasks' = <<>>, future' = BreakQueued, UNCHANGED <<held, m_queue_limit, stop>>
      PROVE  Abstract!Clear
  <2>1. DOMAIN tasks = 1..Len(tasks)
    BY LenProperties DEF TypeOK
  <2>2. \A t \in Task : t \in Range(tasks) <=> \E i \in 1..Len(tasks) : tasks[i] = t
    BY <2>1 DEF Range
  <2>3. future' = [t \in Task |-> IF \E i \in 1..Len(tasks) : tasks[i] = t
                                  THEN "broken" ELSE future[t]]
    BY <1>5, <2>2 DEF BreakQueued
  <2> QED BY <1>5, <2>3 DEF Abstract!Clear
<1>6. ASSUME NEW w \in Worker, WorkerStep(w) PROVE [Abstract!Next]_(Abstract!vars)
  BY <1>1, <1>3, <1>4, <1>6
     DEF WorkerStep, WorkerStop, WorkerRetire, WorkerSleep, WorkerPeek, Abstract!Next
<1>7. ASSUME NEW c \in Client, ClientStep(c) PROVE [Abstract!Next]_(Abstract!vars)
  <2>1. ASSUME NEW n \in Limits, SetQueueLimit(c, n) PROVE Abstract!SetLimit(n)
    BY <2>1 DEF SetQueueLimit, Abstract!SetLimit
  <2> QED BY <1>1, <1>5, <1>7, <2>1
          DEF ClientStep, Wait, WaitRecheck, CleanQueue, Abstract!Next
<1>8. ASSUME OwnerStep PROVE [Abstract!Next]_(Abstract!vars)
  <2>1. ASSUME Destroy PROVE Abstract!Close
    BY <2>1 DEF Destroy, Abstract!Close
  <2> QED BY <1>1, <1>5, <1>8, <2>1
          DEF OwnerStep, AddThread, RemoveThreads, RemoveNotify, RemoveJoin,
              RemoveReturn, DestroyNotify, DestroyReturn, Abstract!Next
<1> QED BY <1>1, <1>2, <1>6, <1>7, <1>8
        DEF Next, vars, Notify, SpuriousWake, Destroyed, Abstract!Next

\* With its threads, locks and wakeups the pool is a bounded first-in-first-out
\* queue that starts nothing once its destructor has begun.
THEOREM PoolImplementsQueue == Spec => QueueSpec
<1>1. TaskInv /\ [Next]_vars => [Abstract!Next]_(Abstract!vars)
  BY RefinementStep
<1> QED BY <1>1, RefinementInit, TaskInvInit, TaskInvNext, PTL
        DEF Spec, QueueSpec, Abstract!Spec

=============================================================================
