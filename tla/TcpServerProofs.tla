-------------------------- MODULE TcpServerProofs --------------------------
(***************************************************************************)
(* Theorems about TcpServer, for any number of connections, descriptors    *)
(* and threads of the pool.                                                *)
(***************************************************************************)
EXTENDS TcpServer, SequenceTheorems, WellFoundedInduction, TLAPS

\* A non-empty set of natural numbers has a least one, and Min is it.
LEMMA MinIsLeast ==
    ASSUME NEW S \in SUBSET Nat, S # {}
    PROVE  Min(S) \in S
  <1> DEFINE R == {ss \in Nat \X Nat : ss[1] < ss[2]}
  <1>1. IsWellFoundedOn(R, Nat)
    BY NatLessThanWellFounded DEF OpToRel
  <1>2. PICK x \in S : \A y \in S : ~(<<y, x>> \in R)
    <2> HIDE DEF R
    <2> QED
      BY <1>1, WFMin
  <1>3. ASSUME NEW y \in S PROVE x <= y
    <2>1. x \in Nat /\ y \in Nat /\ <<y, x>> \notin R
      BY <1>2
    <2>2. ~(y < x)
      BY <2>1
    <2> QED
      BY <2>1, <2>2
  <1> QED
    BY <1>3 DEF Min

LEMMA LowestIsFree ==
    ASSUME Free # {}
    PROVE  Lowest \in Fd /\ file[Lowest] = "free" /\ Lowest # NoFd
  <1>1. Free \in SUBSET Nat
    BY FdAssumption DEF Free
  <1>2. Lowest \in Free
    BY <1>1, MinIsLeast DEF Lowest
  <1> QED
    BY <1>1, <1>2 DEF Free, NoFd

\* The kinds of descriptors are no connections.
LEMMA Kinds ==
    /\ NoConn \notin Conn /\ "free" \notin Conn /\ "listen" \notin Conn
    /\ "deaf" \notin Conn /\ "foreign" \notin Conn
    /\ NoFd \notin Fd
  BY ConnAssumption, FdAssumption DEF NoFd

-----------------------------------------------------------------------------
(* The inductive invariant                                                 *)

\* A connection whose handler runs or waits in the pool.
Queued(c) == \E i \in 1..Len(queue) : queue[i] = c
Live(c)   == c \in active \/ Queued(c)

\* Types, with those of the pool.
TypeInv ==
    /\ TypeOK
    /\ queue \in Seq(Conn) /\ active \subseteq Conn /\ DOMAIN future = Conn

\* Each connection is submitted once, and its handler runs while it is active.
PoolInv ==
    /\ \A i, j \in 1..Len(queue) : queue[i] = queue[j] => i = j
    /\ \A c \in Conn : Queued(c) => c \notin active
    /\ \A c \in Conn : Live(c) => future[c] # "none" /\ fdOf[c] \in Fd
    /\ \A c \in Conn : handler[c] = "none" <=> c \notin active

\* The pool of a server thread that is gone is empty, and closed before that.
ThreadInv ==
    /\ run \in {"none", "ended"} => active = {} /\ queue = <<>>
    /\ run \in {"draining", "ended"} => closed
    /\ accepted # NoConn => run = "accepted"
    /\ run = "accepted" => /\ accepted \in Conn /\ future[accepted] = "none"
                           /\ fdOf[accepted] \in Fd

\* m_running is FALSE during stop(), which ends the server thread.
OwnerInv ==
    /\ app # "idle" => ~m_running
    /\ (app = "idle" /\ ~m_running) => run = "none"
    /\ ~Locked => toClose = {}
    /\ NeverTerminates

\* m_server_fd never names a connection; stop() has given it back before it
\* locks m_clients; once it is closed, the assignment of NoFd is next.
ListenInv ==
    m_server_fd # NoFd =>
        /\ file[m_server_fd] \notin Conn
        /\ app \notin {"lock", "clients", "join"}
        /\ file[m_server_fd] \in {"listen", "deaf"} \/ app = "assign" \/ run = "assign"

\* A connection has one descriptor; a handler's is open until stop() closes it,
\* and no other connection gets the number before the handler ends.
ConnInv ==
    /\ \A fd \in Fd : file[fd] \in Conn => fdOf[file[fd]] = fd
    /\ accepted # NoConn => file[fdOf[accepted]] = accepted
    /\ \A c \in Conn : Live(c) =>
          \/ file[fdOf[c]] = c
          \/ file[fdOf[c]] \notin Conn /\ app \in {"clients", "join"}

ServerInv ==
    TypeInv /\ PoolInv /\ ThreadInv /\ OwnerInv /\ ListenInv /\ ConnInv /\ ClientsTracked

-----------------------------------------------------------------------------
(* The pool                                                                *)

\* Steps of the owner, and those of run() that touch neither the pool nor a
\* connection.
OwnerStep ==
    \/ StartAgain \/ StartFail \/ Stop
    \/ StopShutdown \/ StopClose \/ StopAssign \/ StopLock
    \/ (\E fd \in Fd : StopClient(fd)) \/ StopClear

LoopStep == RunTest \/ RunCall \/ RunTransient \/ RunFatal \/ RunClose \/ RunAssign

ForeignStep == ForeignOpen \/ \E fd \in Fd : ForeignClose(fd)

\* A handler that goes on.
HandlerMove(c) ==
    \/ HandlerTest(c) \/ HandlerCall(c) \/ HandlerRecv(c) \/ HandlerReply(c) \/ HandlerSent(c)

LEMMA NextCases ==
    ASSUME [Next]_vars
    PROVE  \/ OwnerStep \/ LoopStep \/ ForeignStep \/ UNCHANGED vars
           \/ StartOk \/ StopJoin
           \/ (\E c \in Conn : RunAccept(c)) \/ RunInsert \/ RunLeave \/ RunEnd
           \/ HandlerStart \/ \E c \in Conn : HandlerMove(c) \/ HandlerEnd(c)
  BY DEF Next, StopStep, RunStep, HandlerStep, OwnerStep, LoopStep, ForeignStep, HandlerMove

LEMMA CalmSteps ==
    ASSUME OwnerStep \/ LoopStep \/ ForeignStep \/ UNCHANGED vars
    PROVE  UNCHANGED <<poolVars, connVars, accepted>>
  BY DEF OwnerStep, LoopStep, ForeignStep, vars, runVars,
         StartAgain, StartFail, Stop, StopShutdown, StopClose, StopAssign, StopLock,
         StopClient, StopClear, RunTest, RunCall, RunTransient, RunFatal, RunClose, RunAssign,
         ForeignOpen, ForeignClose

LEMMA MoveSteps ==
    ASSUME TypeInv, NEW c \in Conn, HandlerMove(c)
    PROVE  /\ handler[c] # "none" /\ handler'[c] # "none" /\ handler' \in [Conn -> HandlerPC]
           /\ \A d \in Conn \ {c} : handler'[d] = handler[d]
           /\ UNCHANGED <<serverVars, appVars, runVars, fdOf, file, poolVars>>
  BY DEF TypeInv, TypeOK, HandlerPC, Entered, HandlerMove, HandlerTest, HandlerCall, HandlerRecv,
         HandlerReply, HandlerSent

\* What the pool's operations do to its variables.
LEMMA PoolSteps ==
    /\ \A c \in Conn : Pool!Submit(c) =>
          /\ active' = active /\ closed' = closed /\ future[c] = "none"
          /\ \/ queue' = queue /\ future' = [future EXCEPT ![c] = "rejected"]
             \/ queue' = Append(queue, c) /\ future' = [future EXCEPT ![c] = "pending"]
    /\ \A c \in Conn : Pool!Finish(c) =>
          /\ c \in active /\ active' = active \ {c}
          /\ future' = [future EXCEPT ![c] = "ready"]
          /\ queue' = queue /\ closed' = closed
    /\ Pool!Start => /\ ~closed /\ queue # <<>> /\ queue' = Tail(queue)
                     /\ active' = active \cup {Head(queue)}
                     /\ future' = future /\ closed' = closed
    /\ Pool!Clear => /\ queue' = <<>> /\ DOMAIN future' = Conn
                     /\ active' = active /\ closed' = closed
    /\ Pool!Close => closed' = TRUE /\ UNCHANGED <<queue, active, future>>
  <1>1. ASSUME NEW c \in Conn, Pool!Submit(c)
        PROVE  /\ active' = active /\ closed' = closed /\ future[c] = "none"
               /\ \/ queue' = queue /\ future' = [future EXCEPT ![c] = "rejected"]
                  \/ queue' = Append(queue, c) /\ future' = [future EXCEPT ![c] = "pending"]
    BY <1>1 DEF Pool!Submit
  <1>2. ASSUME NEW c \in Conn, Pool!Finish(c)
        PROVE  /\ c \in active /\ active' = active \ {c}
               /\ future' = [future EXCEPT ![c] = "ready"]
               /\ queue' = queue /\ closed' = closed
    BY <1>2 DEF Pool!Finish
  <1>3. Pool!Start => /\ ~closed /\ queue # <<>> /\ queue' = Tail(queue)
                      /\ active' = active \cup {Head(queue)}
                      /\ future' = future /\ closed' = closed
    BY DEF Pool!Start
  <1>4. Pool!Clear => /\ queue' = <<>> /\ DOMAIN future' = Conn
                      /\ active' = active /\ closed' = closed
    BY DEF Pool!Clear
  <1>5. Pool!Close => closed' = TRUE /\ UNCHANGED <<queue, active, future>>
    BY DEF Pool!Close
  <1> QED
    BY <1>1, <1>2, <1>3, <1>4, <1>5

\* A connection is appended to the pool's queue ...
LEMMA QueueAppended ==
    ASSUME TypeInv, NEW c \in Conn, queue' = Append(queue, c)
    PROVE  /\ queue' \in Seq(Conn)
           /\ \A d \in Conn : Queued(d)' <=> Queued(d) \/ d = c
           /\ (~Queued(c) /\ \A i, j \in 1..Len(queue) : queue[i] = queue[j] => i = j) =>
                 \A i, j \in 1..Len(queue') : queue'[i] = queue'[j] => i = j
  <1>1. queue \in Seq(Conn) /\ Len(queue) \in Nat
    BY DEF TypeInv
  <1>2. /\ queue' \in Seq(Conn) /\ Len(queue') = Len(queue) + 1
        /\ \A i \in 1..Len(queue) : queue'[i] = queue[i]
        /\ queue'[Len(queue) + 1] = c
    BY <1>1, AppendProperties
  <1>3. ASSUME NEW i \in 1..Len(queue')
        PROVE  (i \in 1..Len(queue) /\ queue'[i] = queue[i]) \/ (i = Len(queue) + 1 /\ queue'[i] = c)
    BY <1>1, <1>2
  <1>4. \A i \in 1..Len(queue) : i \in 1..Len(queue')
    BY <1>1, <1>2
  <1>5. Len(queue) + 1 \in 1..Len(queue')
    BY <1>1, <1>2
  <1>6. \A d \in Conn : Queued(d)' <=> Queued(d) \/ d = c
    BY <1>2, <1>3, <1>4, <1>5 DEF Queued
  <1> QED
    BY <1>2, <1>3, <1>6 DEF Queued

\* ... and the oldest is taken.
LEMMA QueueTaken ==
    ASSUME TypeInv, queue # <<>>, queue' = Tail(queue),
           \A i, j \in 1..Len(queue) : queue[i] = queue[j] => i = j
    PROVE  /\ queue' \in Seq(Conn) /\ Head(queue) \in Conn /\ Queued(Head(queue))
           /\ \A d \in Conn : Queued(d)' <=> Queued(d) /\ d # Head(queue)
           /\ \A i, j \in 1..Len(queue') : queue'[i] = queue'[j] => i = j
  <1>1. queue \in Seq(Conn) /\ Len(queue) \in Nat /\ Len(queue) # 0
    BY EmptySeq DEF TypeInv
  <1>2. /\ queue' \in Seq(Conn) /\ Len(queue') = Len(queue) - 1 /\ Head(queue) \in Conn
        /\ \A i \in 1..Len(queue') : queue'[i] = queue[i + 1]
    BY <1>1, HeadTailProperties
  <1>3. Head(queue) = queue[1] /\ 1 \in 1..Len(queue)
    BY <1>1
  <1>4. \A i \in 1..Len(queue') : i + 1 \in 1..Len(queue) /\ i + 1 # 1
    BY <1>1, <1>2
  <1>5. ASSUME NEW i \in 1..Len(queue), i # 1
        PROVE  i - 1 \in 1..Len(queue') /\ queue'[i - 1] = queue[i]
    <2>1. i - 1 \in 1..Len(queue') /\ (i - 1) + 1 = i
      BY <1>1, <1>2, <1>5
    <2> QED
      BY <1>2, <2>1
  <1>6. ASSUME NEW d \in Conn PROVE Queued(d)' <=> Queued(d) /\ d # Head(queue)
    <2>1. Queued(d)' => Queued(d) /\ d # Head(queue)
      BY <1>2, <1>3, <1>4 DEF Queued
    <2>2. Queued(d) /\ d # Head(queue) => Queued(d)'
      BY <1>3, <1>5 DEF Queued
    <2> QED
      BY <2>1, <2>2
  <1>7. ASSUME NEW i \in 1..Len(queue'), NEW j \in 1..Len(queue'), queue'[i] = queue'[j]
        PROVE  i = j
    <2>1. i + 1 = j + 1
      BY <1>2, <1>4, <1>7
    <2> QED
      BY <2>1
  <1> QED
    BY <1>2, <1>3, <1>6, <1>7 DEF Queued

\* An empty queue.
LEMMA QueueEmptied ==
    ASSUME queue' = <<>>
    PROVE  queue' \in Seq(Conn) /\ Len(queue') = 0 /\ \A d : ~Queued(d)'
  <1>1. Len(queue') = 0 /\ queue' \in Seq(Conn)
    BY EmptySeq
  <1> QED
    BY <1>1 DEF Queued

\* Types of the pool's variables, and of handler and fdOf.
LEMMA StepPool ==
    ASSUME ServerInv, [Next]_vars
    PROVE  /\ queue' \in Seq(Conn) /\ active' \subseteq Conn /\ DOMAIN future' = Conn
           /\ handler' \in [Conn -> HandlerPC] /\ fdOf' \in [Conn -> Fd \cup {NoFd}]
           /\ PoolInv'
  <1> DEFINE Goal == /\ queue' \in Seq(Conn) /\ active' \subseteq Conn /\ DOMAIN future' = Conn
                     /\ handler' \in [Conn -> HandlerPC] /\ fdOf' \in [Conn -> Fd \cup {NoFd}]
                     /\ PoolInv'
  <1>t. /\ queue \in Seq(Conn) /\ active \subseteq Conn /\ DOMAIN future = Conn
        /\ handler \in [Conn -> HandlerPC] /\ fdOf \in [Conn -> Fd \cup {NoFd}]
        /\ TypeInv /\ PoolInv
    BY DEF ServerInv, TypeInv, TypeOK
  <1>1. CASE OwnerStep \/ LoopStep \/ ForeignStep \/ UNCHANGED vars
    BY <1>1, <1>t, CalmSteps DEF PoolInv, Live, Queued, poolVars, connVars
  <1>2. CASE StartOk
    <2>1. /\ queue' = <<>> /\ active' = {} /\ UNCHANGED <<handler, fdOf, future>>
          /\ run = "none"
      BY <1>2 DEF StartOk, connVars, ServerInv, OwnerInv
    <2>2. active = {}
      BY <2>1 DEF ServerInv, ThreadInv
    <2> QED
      BY <1>t, <2>1, <2>2, QueueEmptied DEF PoolInv, Live
  <1>3. CASE StopJoin \/ RunLeave
    BY <1>3, <1>t, PoolSteps DEF StopJoin, RunLeave, connVars, poolVars, PoolInv, Live, Queued
  <1>4. ASSUME NEW c \in Conn, RunAccept(c) PROVE Goal
    <2>1. /\ future[c] = "none" /\ Lowest \in Fd /\ fdOf' = [fdOf EXCEPT ![c] = Lowest]
          /\ UNCHANGED <<handler, poolVars>>
      BY <1>4, LowestIsFree DEF RunAccept, Listening
    <2> QED
      BY <1>t, <2>1 DEF PoolInv, Live, Queued, poolVars
  <1>5. CASE RunInsert
    <2>1. /\ accepted \in Conn /\ future[accepted] = "none" /\ fdOf[accepted] \in Fd
          /\ Pool!Submit(accepted) /\ UNCHANGED <<handler, fdOf>>
      BY <1>5 DEF RunInsert, connVars, ServerInv, ThreadInv
    <2>2. active' = active /\ ~Live(accepted)
      BY <1>t, <2>1, PoolSteps DEF PoolInv
    <2>3. CASE queue' = queue /\ future' = [future EXCEPT ![accepted] = "rejected"]
      BY <1>t, <2>1, <2>2, <2>3 DEF PoolInv, Live, Queued
    <2>4. CASE queue' = Append(queue, accepted) /\ future' = [future EXCEPT ![accepted] = "pending"]
      BY <1>t, <2>1, <2>2, <2>4, QueueAppended DEF PoolInv, Live
    <2> QED
      BY <2>1, <2>3, <2>4, PoolSteps
  <1>6. CASE RunEnd
    <2>1. Pool!Clear /\ active = {} /\ UNCHANGED <<handler, fdOf>>
      BY <1>6 DEF RunEnd, Drained, connVars
    <2>2. queue' = <<>> /\ active' = active /\ DOMAIN future' = Conn
      BY <2>1, PoolSteps
    <2> QED
      BY <1>t, <2>1, <2>2, QueueEmptied DEF PoolInv, Live
  <1>7. CASE HandlerStart
    <2> DEFINE h == Head(queue)
    <2>1. Pool!Start /\ handler' = [handler EXCEPT ![h] = "test"] /\ fdOf' = fdOf
      BY <1>7 DEF HandlerStart
    <2>2. /\ queue # <<>> /\ queue' = Tail(queue) /\ active' = active \cup {h} /\ future' = future
      BY <2>1, PoolSteps
    <2>3. \A i, j \in 1..Len(queue) : queue[i] = queue[j] => i = j
      BY <1>t DEF PoolInv
    <2>4. /\ queue' \in Seq(Conn) /\ h \in Conn /\ Queued(h)
          /\ \A d \in Conn : Queued(d)' <=> Queued(d) /\ d # h
          /\ \A i, j \in 1..Len(queue') : queue'[i] = queue'[j] => i = j
      BY <1>t, <2>2, <2>3, QueueTaken
    <2> HIDE DEF h
    <2> QED
      BY <1>t, <2>1, <2>2, <2>4 DEF PoolInv, Live, HandlerPC
  <1>8. ASSUME NEW c \in Conn, HandlerMove(c) PROVE Goal
    BY <1>8, <1>t, MoveSteps DEF PoolInv, Live, Queued, poolVars
  <1>9. ASSUME NEW c \in Conn, HandlerEnd(c) PROVE Goal
    <2>1. Pool!Finish(c) /\ handler' = [handler EXCEPT ![c] = "none"] /\ fdOf' = fdOf
      BY <1>9 DEF HandlerEnd
    <2>2. /\ c \in active /\ active' = active \ {c} /\ queue' = queue
          /\ future' = [future EXCEPT ![c] = "ready"]
      BY <2>1, PoolSteps
    <2> QED
      BY <1>t, <2>1, <2>2 DEF PoolInv, Live, Queued, HandlerPC
  <1> QED
    BY <1>1, <1>2, <1>3, <1>4, <1>5, <1>6, <1>7, <1>8, <1>9, NextCases

-----------------------------------------------------------------------------
(* The threads                                                             *)

LEMMA StepThread == ServerInv /\ [Next]_vars => ThreadInv'
  <1> SUFFICES ASSUME ServerInv, [Next]_vars PROVE ThreadInv'
    OBVIOUS
  <1>t. TypeInv /\ PoolInv /\ ThreadInv /\ OwnerInv
    BY DEF ServerInv
  <1>1. CASE OwnerStep \/ ForeignStep \/ UNCHANGED vars
    <2>1. run' = run
      BY <1>1 DEF OwnerStep, ForeignStep, vars, runVars, StartAgain, StartFail, Stop,
                  StopShutdown, StopClose, StopAssign, StopLock, StopClient, StopClear,
                  ForeignOpen, ForeignClose
    <2> QED
      BY <1>1, <1>t, <2>1, CalmSteps DEF ThreadInv, poolVars, connVars
  <1>2. CASE LoopStep
    <2>1. run \in {"test", "accept", "accepting", "astray", "closing", "assign"}
          /\ run' \in {"test", "accept", "accepting", "astray", "closing", "assign", "leaving"}
      BY <1>2 DEF LoopStep, RunTest, RunCall, RunTransient, RunFatal, AcceptRefused, RunClose,
                  RunAssign
    <2> QED
      BY <1>2, <1>t, <2>1, CalmSteps DEF ThreadInv, poolVars, connVars
  <1>3. CASE StartOk
    BY <1>3, <1>t DEF StartOk, ThreadInv, OwnerInv
  <1>4. CASE StopJoin
    BY <1>4, <1>t DEF StopJoin, Joinable, ThreadInv, connVars, poolVars
  <1>5. ASSUME NEW c \in Conn, RunAccept(c) PROVE ThreadInv'
    BY <1>5, <1>t, LowestIsFree, Kinds
       DEF RunAccept, Listening, ThreadInv, TypeInv, TypeOK, poolVars
  <1>6. CASE RunInsert
    BY <1>6, <1>t DEF RunInsert, ThreadInv
  <1>7. CASE RunLeave
    BY <1>7, <1>t, PoolSteps DEF RunLeave, ThreadInv
  <1>8. CASE RunEnd
    BY <1>8, <1>t, PoolSteps DEF RunEnd, Drained, ThreadInv
  <1>9. CASE HandlerStart
    <2>1. Pool!Start /\ run # "none" /\ UNCHANGED <<runVars, fdOf>>
      BY <1>9 DEF HandlerStart
    <2>2. ~closed /\ future' = future /\ closed' = closed
      BY <2>1, PoolSteps
    <2> QED
      BY <1>t, <2>1, <2>2 DEF ThreadInv, runVars
  <1>10. ASSUME NEW c \in Conn, HandlerMove(c) PROVE ThreadInv'
    BY <1>10, <1>t, MoveSteps DEF ThreadInv, runVars, poolVars
  <1>11. ASSUME NEW c \in Conn, HandlerEnd(c) PROVE ThreadInv'
    <2>1. /\ c \in active /\ active' = active \ {c} /\ queue' = queue /\ closed' = closed
          /\ future' = [future EXCEPT ![c] = "ready"] /\ UNCHANGED <<runVars, fdOf>>
      BY <1>11, PoolSteps DEF HandlerEnd
    <2>2. future[c] # "none" /\ DOMAIN future = Conn
      BY <1>t, <2>1 DEF PoolInv, Live, TypeInv
    <2>3. accepted # c
      BY <1>t, <2>2, Kinds DEF ThreadInv, TypeInv
    <2> QED
      BY <1>t, <2>1, <2>2 DEF ThreadInv, runVars
  <1> QED
    BY <1>1, <1>2, <1>3, <1>4, <1>5, <1>6, <1>7, <1>8, <1>9, <1>10, <1>11, NextCases

\* What a step outside the owner's calls leaves alone.
LEMMA OwnerCalm ==
    ASSUME \/ LoopStep \/ ForeignStep \/ (\E c \in Conn : RunAccept(c)) \/ RunInsert
           \/ RunLeave \/ RunEnd \/ HandlerStart \/ (\E c \in Conn : HandlerMove(c) \/ HandlerEnd(c))
           \/ UNCHANGED vars
    PROVE  UNCHANGED <<m_running, app, answer, toClose>>
  BY DEF LoopStep, ForeignStep, RunAccept, RunInsert, RunLeave, RunEnd, HandlerStart, HandlerMove,
         HandlerTest, HandlerCall, HandlerRecv, HandlerReply, HandlerSent, HandlerEnd, vars,
         serverVars, appVars, RunTest, RunCall, RunTransient, RunFatal, RunClose, RunAssign,
         ForeignOpen, ForeignClose

LEMMA StepOwner == ServerInv /\ [Next]_vars => OwnerInv'
  <1> SUFFICES ASSUME ServerInv, [Next]_vars PROVE OwnerInv'
    OBVIOUS
  <1>t. OwnerInv /\ TypeInv
    BY DEF ServerInv
  <1>1. CASE StartAgain \/ StartFail \/ StartOk
    BY <1>1, <1>t DEF StartAgain, StartFail, StartOk, OwnerInv, Locked, NeverTerminates,
                      serverVars, runVars
  <1>2. CASE Stop \/ StopShutdown \/ StopClose \/ StopAssign \/ StopLock
             \/ (\E fd \in Fd : StopClient(fd)) \/ StopClear
    BY <1>2, <1>t DEF Stop, StopShutdown, StopClose, StopAssign, StopLock, StopClient, StopClear,
                      OwnerInv, Locked, NeverTerminates, serverVars, runVars
  <1>3. CASE StopJoin
    BY <1>3, <1>t DEF StopJoin, OwnerInv, Locked, NeverTerminates, serverVars
  <1>4. CASE LoopStep \/ (\E c \in Conn : RunAccept(c)) \/ RunInsert \/ RunLeave \/ RunEnd
    <2>1. run # "none" /\ run' # "terminate"
      BY <1>4 DEF LoopStep, RunTest, RunCall, RunTransient, RunFatal, AcceptRefused, RunClose,
                  RunAssign, RunAccept, RunInsert, RunLeave, RunEnd
    <2> QED
      BY <1>4, <1>t, <2>1, OwnerCalm DEF OwnerInv, Locked, NeverTerminates
  <1>5. CASE ForeignStep \/ HandlerStart \/ (\E c \in Conn : HandlerMove(c) \/ HandlerEnd(c))
             \/ UNCHANGED vars
    <2>1. run' = run
      BY <1>5 DEF ForeignStep, HandlerStart, HandlerMove, HandlerTest, HandlerCall, HandlerRecv,
                  HandlerReply, HandlerSent, HandlerEnd, vars, runVars, ForeignOpen, ForeignClose
    <2> QED
      BY <1>5, <1>t, <2>1, OwnerCalm DEF OwnerInv, Locked, NeverTerminates
  <1> QED
    BY <1>1, <1>2, <1>3, <1>4, <1>5, NextCases DEF OwnerStep

-----------------------------------------------------------------------------
(* Types                                                                   *)

Kind == Conn \cup {"free", "listen", "deaf", "foreign"}

\* Closing a number that may be taken changes that entry only.
LEMMA ClosedFile ==
    ASSUME TypeInv, NEW fd \in Fd \cup {NoFd}
    PROVE  /\ Closed(fd) \in [Fd -> Kind]
           /\ \A g \in Fd : g # fd => Closed(fd)[g] = file[g]
           /\ fd \in Fd => Closed(fd)[fd] = "free"
  BY Kinds DEF Closed, TypeInv, TypeOK, Kind

LEMMA StepFileTypes ==
    ASSUME ServerInv, [Next]_vars
    PROVE  file' \in [Fd -> Kind] /\ m_server_fd' \in Fd \cup {NoFd}
  <1> DEFINE Goal == file' \in [Fd -> Kind] /\ m_server_fd' \in Fd \cup {NoFd}
  <1>t. TypeInv /\ file \in [Fd -> Kind] /\ m_server_fd \in Fd \cup {NoFd}
        /\ fdOf \in [Conn -> Fd \cup {NoFd}]
    BY DEF ServerInv, TypeInv, TypeOK, Kind
  <1>1. CASE StartOk \/ ForeignOpen \/ \E c \in Conn : RunAccept(c)
    BY <1>1, <1>t, LowestIsFree
       DEF StartOk, ForeignOpen, RunAccept, Listening, serverVars, Kind
  <1>2. CASE StopClose \/ RunClose
    BY <1>2, <1>t, ClosedFile DEF StopClose, RunClose, serverVars
  <1>3. CASE \E fd \in Fd : StopClient(fd) \/ ForeignClose(fd)
    BY <1>3, <1>t, ClosedFile DEF StopClient, ForeignClose, serverVars
  <1>4. ASSUME NEW c \in Conn, HandlerEnd(c) PROVE Goal
    BY <1>4, <1>t, ClosedFile DEF HandlerEnd
  <1>5. CASE StopShutdown
    BY <1>5, <1>t DEF StopShutdown, serverVars, Kind
  <1>6. CASE StopAssign \/ RunAssign \/ StartFail
    BY <1>6, <1>t DEF StopAssign, RunAssign, StartFail
  <1>7. CASE StartAgain \/ Stop \/ StopLock \/ StopClear \/ StopJoin \/ UNCHANGED vars
    BY <1>7, <1>t DEF StartAgain, Stop, StopLock, StopClear, StopJoin, vars, serverVars
  <1>8. CASE RunTest \/ RunCall \/ RunTransient \/ RunFatal \/ RunInsert \/ RunLeave \/ RunEnd
             \/ HandlerStart
    BY <1>8, <1>t DEF RunTest, RunCall, RunTransient, RunFatal, RunInsert, RunLeave, RunEnd,
                      HandlerStart, serverVars
  <1>9. ASSUME NEW c \in Conn, HandlerMove(c) PROVE Goal
    BY <1>9, <1>t, MoveSteps DEF serverVars
  <1> QED
    BY <1>1, <1>2, <1>3, <1>4, <1>5, <1>6, <1>7, <1>8, <1>9, NextCases
       DEF OwnerStep, LoopStep, ForeignStep

LEMMA StepClientTypes ==
    ASSUME ServerInv, [Next]_vars
    PROVE  m_clients' \subseteq Fd /\ toClose' \subseteq m_clients'
  <1> DEFINE Goal == m_clients' \subseteq Fd /\ toClose' \subseteq m_clients'
  <1>t. m_clients \subseteq Fd /\ toClose \subseteq m_clients /\ (~Locked => toClose = {})
    BY DEF ServerInv, TypeInv, TypeOK, OwnerInv
  <1>1. CASE StartAgain \/ StartFail \/ StartOk \/ Stop \/ StopShutdown \/ StopClose \/ StopAssign
             \/ StopJoin
    BY <1>1, <1>t DEF StartAgain, StartFail, StartOk, Stop, StopShutdown, StopClose, StopAssign,
                      StopJoin, serverVars
  <1>2. CASE StopLock \/ (\E fd \in Fd : StopClient(fd)) \/ StopClear
    BY <1>2, <1>t DEF StopLock, StopClient, StopClear, serverVars
  <1>3. CASE LoopStep \/ ForeignStep \/ (\E c \in Conn : RunAccept(c)) \/ RunLeave \/ RunEnd
             \/ HandlerStart \/ (\E c \in Conn : HandlerMove(c)) \/ UNCHANGED vars
    <2>1. m_clients' = m_clients
      BY <1>3 DEF LoopStep, ForeignStep, RunAccept, RunLeave, RunEnd, HandlerStart, HandlerMove,
                  HandlerTest, HandlerCall, HandlerRecv, HandlerReply, HandlerSent, vars,
                  serverVars, RunTest, RunCall, RunTransient, RunFatal, RunClose, RunAssign,
                  ForeignOpen, ForeignClose
    <2> QED
      BY <1>3, <1>t, <2>1, OwnerCalm
  <1>4. CASE RunInsert
    <2>1. accepted \in Conn /\ fdOf[accepted] \in Fd
      BY <1>4 DEF RunInsert, ServerInv, ThreadInv
    <2> QED
      BY <1>4, <1>t, <2>1 DEF RunInsert, Tracked, appVars
  <1>5. ASSUME NEW c \in Conn, HandlerEnd(c) PROVE Goal
    BY <1>5, <1>t DEF HandlerEnd, appVars
  <1> QED
    BY <1>1, <1>2, <1>3, <1>4, <1>5, NextCases DEF OwnerStep

\* Where the owner and the server thread are.
LEMMA StepPlaceTypes ==
    ASSUME ServerInv, [Next]_vars
    PROVE  /\ app' \in AppPC /\ run' \in RunPC
           /\ answer' \in {"none", "started", "already", "failed", "stopped"}
           /\ accepted' \in Conn \cup {NoConn}
  <1> DEFINE Goal == /\ app' \in AppPC /\ run' \in RunPC
                     /\ answer' \in {"none", "started", "already", "failed", "stopped"}
                     /\ accepted' \in Conn \cup {NoConn}
  <1>t. /\ app \in AppPC /\ run \in RunPC
        /\ answer \in {"none", "started", "already", "failed", "stopped"}
        /\ accepted \in Conn \cup {NoConn}
    BY DEF ServerInv, TypeInv, TypeOK
  <1>1. CASE StartAgain \/ StartFail \/ StartOk \/ Stop \/ StopShutdown \/ StopClose \/ StopAssign
             \/ StopLock \/ (\E fd \in Fd : StopClient(fd)) \/ StopClear \/ StopJoin
    BY <1>1, <1>t DEF StartAgain, StartFail, StartOk, Stop, StopShutdown, StopClose, StopAssign,
                      StopLock, StopClient, StopClear, StopJoin, runVars, AppPC, RunPC
  <1>2. CASE LoopStep \/ (\E c \in Conn : RunAccept(c)) \/ RunInsert \/ RunLeave \/ RunEnd
    <2>1. run' \in RunPC /\ accepted' \in Conn \cup {NoConn}
      BY <1>2, <1>t DEF LoopStep, RunTest, RunCall, RunTransient, RunFatal, RunClose, RunAssign,
                        RunAccept, RunInsert, RunLeave, RunEnd, RunPC
    <2> QED
      BY <1>2, <1>t, <2>1, OwnerCalm
  <1>3. CASE ForeignStep \/ HandlerStart \/ (\E c \in Conn : HandlerMove(c) \/ HandlerEnd(c))
             \/ UNCHANGED vars
    <2>1. UNCHANGED runVars
      BY <1>3 DEF ForeignStep, HandlerStart, HandlerMove, HandlerTest, HandlerCall, HandlerRecv,
                  HandlerReply, HandlerSent, HandlerEnd, vars, ForeignOpen, ForeignClose
    <2> QED
      BY <1>3, <1>t, <2>1, OwnerCalm DEF runVars
  <1> QED
    BY <1>1, <1>2, <1>3, NextCases DEF OwnerStep

LEMMA StepRunning == m_running \in BOOLEAN /\ [Next]_vars => m_running' \in BOOLEAN
  <1> SUFFICES ASSUME m_running \in BOOLEAN, [Next]_vars PROVE m_running' \in BOOLEAN
    OBVIOUS
  <1>1. CASE StartAgain \/ StartFail \/ StartOk \/ OwnerStep \/ StopJoin
    BY <1>1 DEF StartAgain, StartFail, StartOk, OwnerStep, Stop, StopShutdown, StopClose,
                StopAssign, StopLock, StopClient, StopClear, StopJoin, serverVars
  <1>2. CASE ~(StartAgain \/ StartFail \/ StartOk \/ OwnerStep \/ StopJoin)
    BY <1>2, OwnerCalm, NextCases
  <1> QED
    BY <1>1, <1>2

LEMMA StepTypes == ServerInv /\ [Next]_vars => TypeInv' /\ PoolInv'
  <1>1. ServerInv => m_running \in BOOLEAN
    BY DEF ServerInv, TypeInv, TypeOK
  <1> QED
    BY <1>1, StepPool, StepFileTypes, StepClientTypes, StepPlaceTypes, StepRunning
       DEF TypeInv, TypeOK, Kind

-----------------------------------------------------------------------------
(* Descriptors                                                             *)

\* How an entry of the descriptor table changes: a connection gets in by accept
\* alone, and out by stop() or at the end of its own handler.
LEMMA FileMoves ==
    ASSUME ServerInv, [Next]_vars, NEW g \in Fd, file'[g] # file[g]
    PROVE  \/ file[g] = "free" /\ \E c \in Conn : RunAccept(c) /\ g = Lowest /\ file'[g] = c
           \/ file[g] \notin Conn /\ file'[g] \notin Conn
           \/ StopClient(g) /\ file[g] # accepted /\ file'[g] = "free"
           \/ \E c \in Conn : HandlerEnd(c) /\ g = fdOf[c] /\ file[g] = c /\ file'[g] = "free"
  <1> DEFINE Goal ==
        \/ file[g] = "free" /\ \E c \in Conn : RunAccept(c) /\ g = Lowest /\ file'[g] = c
        \/ file[g] \notin Conn /\ file'[g] \notin Conn
        \/ StopClient(g) /\ file[g] # accepted /\ file'[g] = "free"
        \/ \E c \in Conn : HandlerEnd(c) /\ g = fdOf[c] /\ file[g] = c /\ file'[g] = "free"
  <1>t. /\ TypeInv /\ file \in [Fd -> Kind] /\ m_server_fd \in Fd \cup {NoFd}
        /\ fdOf \in [Conn -> Fd \cup {NoFd}]
    BY DEF ServerInv, TypeInv, TypeOK, Kind
  <1>1. ASSUME NEW c \in Conn, RunAccept(c) PROVE Goal
    <2>1. file' = [file EXCEPT ![Lowest] = c] /\ Lowest \in Fd /\ file[Lowest] = "free"
      BY <1>1, LowestIsFree DEF RunAccept, Listening
    <2>2. g = Lowest /\ file'[g] = c
      BY <1>t, <2>1
    <2> QED
      BY <1>1, <2>1, <2>2
  <1>2. CASE StartOk \/ ForeignOpen
    <2>1. \E k \in {"listen", "foreign"} : file' = [file EXCEPT ![Lowest] = k]
      BY <1>2 DEF StartOk, ForeignOpen
    <2>2. Lowest \in Fd /\ file[Lowest] = "free"
      BY <1>2, LowestIsFree DEF StartOk, ForeignOpen
    <2> QED
      BY <1>t, <2>1, <2>2, Kinds
  <1>3. CASE StopShutdown
    BY <1>3, <1>t, Kinds DEF StopShutdown
  <1>4. CASE StopClose \/ RunClose
    <2>1. file' = Closed(m_server_fd)
      BY <1>4 DEF StopClose, RunClose
    <2>2. m_server_fd # NoFd /\ g = m_server_fd /\ file'[g] = "free"
      BY <1>t, <2>1, ClosedFile DEF Closed
    <2>3. file[g] \notin Conn
      BY <2>2 DEF ServerInv, ListenInv
    <2> QED
      BY <2>2, <2>3, Kinds
  <1>5. ASSUME NEW fd \in Fd, StopClient(fd) PROVE Goal
    <2>1. file' = Closed(fd) /\ fd \in toClose /\ Locked
      BY <1>5 DEF StopClient, Locked
    <2>2. g = fd /\ file'[g] = "free"
      BY <1>t, <2>1, ClosedFile
    <2>3. file[g] # accepted
      BY <2>1, <2>2 DEF ServerInv, ClientsTracked
    <2> QED
      BY <1>5, <2>2, <2>3
  <1>6. ASSUME NEW fd \in Fd, ForeignClose(fd) PROVE Goal
    <2>1. g = fd /\ file'[g] = "free" /\ file[g] = "foreign"
      BY <1>6, <1>t, ClosedFile DEF ForeignClose
    <2> QED
      BY <2>1, Kinds
  <1>7. ASSUME NEW c \in Conn, HandlerEnd(c) PROVE Goal
    <2>1. file' = Closed(fdOf[c]) /\ c \in active
      BY <1>7, PoolSteps DEF HandlerEnd
    <2>2. g = fdOf[c] /\ file'[g] = "free"
      BY <1>t, <2>1, ClosedFile DEF Closed
    <2>3. file[g] = c \/ file[g] \notin Conn
      BY <2>1, <2>2 DEF ServerInv, ConnInv, Live
    <2> QED
      BY <1>7, <2>2, <2>3, Kinds
  <1>8. ~(StartAgain \/ StartFail \/ Stop \/ StopAssign \/ StopLock \/ StopClear \/ StopJoin
          \/ UNCHANGED vars)
    BY DEF StartAgain, StartFail, Stop, StopAssign, StopLock, StopClear, StopJoin, vars
  <1>9. ~(RunTest \/ RunCall \/ RunTransient \/ RunFatal \/ RunAssign \/ RunInsert \/ RunLeave
          \/ RunEnd \/ HandlerStart)
    BY DEF RunTest, RunCall, RunTransient, RunFatal, RunAssign, RunInsert, RunLeave, RunEnd,
           HandlerStart
  <1>10. ~\E c \in Conn : HandlerMove(c)
    BY <1>t, MoveSteps
  <1> QED
    BY <1>1, <1>2, <1>3, <1>4, <1>5, <1>6, <1>7, <1>8, <1>9, <1>10, NextCases
       DEF OwnerStep, LoopStep, ForeignStep

\* The steps that leave m_server_fd alone.
LEMMA ListenerStays ==
    ASSUME [Next]_vars, ~(StartOk \/ StartFail \/ StopAssign \/ RunAssign)
    PROVE  m_server_fd' = m_server_fd
  <1>1. ASSUME NEW c \in Conn, HandlerMove(c) \/ HandlerEnd(c) PROVE m_server_fd' = m_server_fd
    BY <1>1 DEF HandlerMove, HandlerTest, HandlerCall, HandlerRecv, HandlerReply, HandlerSent,
                HandlerEnd, serverVars
  <1>2. CASE OwnerStep \/ StopJoin
    BY <1>2 DEF OwnerStep, StartAgain, Stop, StopShutdown, StopClose, StopLock, StopClient,
                StopClear, StopJoin, serverVars
  <1>3. CASE LoopStep \/ (\E c \in Conn : RunAccept(c)) \/ RunInsert \/ RunLeave \/ RunEnd
    BY <1>3 DEF LoopStep, RunTest, RunCall, RunTransient, RunFatal, RunClose, RunAccept, RunInsert,
                RunLeave, RunEnd, serverVars
  <1>4. CASE ForeignStep \/ HandlerStart \/ UNCHANGED vars
    BY <1>4 DEF ForeignStep, ForeignOpen, ForeignClose, HandlerStart, vars, serverVars
  <1> QED
    BY <1>1, <1>2, <1>3, <1>4, NextCases

\* They keep stop() in front of its assignment of m_server_fd, and close the
\* listening socket only just before an assignment.
LEMMA ListenerGoesOn ==
    ASSUME ServerInv, [Next]_vars, ~(StartOk \/ StartFail \/ StopAssign \/ RunAssign),
           m_server_fd # NoFd
    PROVE  /\ app' \notin {"lock", "clients", "join"}
           /\ file'[m_server_fd] \in {"listen", "deaf"} \/ app' = "assign" \/ run' = "assign"
  <1> DEFINE fd == m_server_fd
             Goal == /\ app' \notin {"lock", "clients", "join"}
                     /\ file'[fd] \in {"listen", "deaf"} \/ app' = "assign" \/ run' = "assign"
  <1>t. /\ fd \in Fd /\ file \in [Fd -> Kind] /\ TypeInv /\ app \notin {"lock", "clients", "join"}
        /\ file[fd] \in {"listen", "deaf"} \/ app = "assign" \/ run = "assign"
    BY DEF ServerInv, TypeInv, TypeOK, Kind, ListenInv
  <1>1. CASE StopClose
    BY <1>1 DEF StopClose
  <1>2. CASE RunClose
    BY <1>2, <1>t DEF RunClose, appVars
  <1>3. CASE StopShutdown
    BY <1>3, <1>t DEF StopShutdown, runVars
  <1>4. CASE StartAgain \/ Stop \/ StopLock \/ (\E g \in Fd : StopClient(g)) \/ StopClear
             \/ StopJoin \/ UNCHANGED vars
    BY <1>4, <1>t DEF StartAgain, Stop, StopLock, StopClient, StopClear, StopJoin, vars, runVars,
                      appVars
  <1>5. CASE RunTest \/ RunCall \/ RunTransient \/ RunFatal \/ RunInsert \/ RunLeave \/ RunEnd
    <2>1. run # "assign" /\ file' = file /\ app' = app
      BY <1>5 DEF RunTest, RunCall, RunTransient, RunFatal, AcceptRefused, RunInsert, RunLeave,
                  RunEnd, appVars
    <2> QED
      BY <1>t, <2>1
  <1>6. ASSUME NEW c \in Conn, RunAccept(c) PROVE Goal
    <2>1. /\ file' = [file EXCEPT ![Lowest] = c] /\ Lowest \in Fd /\ file[Lowest] = "free"
          /\ file[fd] = "listen" /\ app' = app
      BY <1>6, LowestIsFree DEF RunAccept, Listening, appVars
    <2> QED
      BY <1>t, <2>1
  <1>7. CASE ForeignOpen
    <2>1. /\ file' = [file EXCEPT ![Lowest] = "foreign"] /\ Lowest \in Fd /\ file[Lowest] = "free"
          /\ app' = app /\ run' = run
      BY <1>7, LowestIsFree DEF ForeignOpen, appVars, runVars
    <2> QED
      BY <1>t, <2>1
  <1>8. ASSUME NEW g \in Fd, ForeignClose(g) PROVE Goal
    <2>1. file' = Closed(g) /\ file[g] = "foreign" /\ app' = app /\ run' = run
      BY <1>8 DEF ForeignClose, appVars, runVars
    <2> QED
      BY <1>t, <2>1, ClosedFile
  <1>9. ASSUME NEW c \in Conn, HandlerMove(c) PROVE Goal
    <2>1. file' = file /\ app' = app /\ run' = run
      BY <1>9, <1>t, MoveSteps DEF appVars, runVars
    <2> QED
      BY <1>t, <2>1
  <1>10. ASSUME NEW c \in Conn, HandlerEnd(c) PROVE Goal
    <2>1. file' = Closed(fdOf[c]) /\ app' = app /\ run' = run /\ c \in active
      BY <1>10, PoolSteps DEF HandlerEnd, appVars, runVars
    <2>2. file[fdOf[c]] = c /\ fdOf[c] \in Fd
      BY <1>t, <2>1 DEF ServerInv, ConnInv, PoolInv, Live
    <2>3. fd # fdOf[c]
      BY <2>2 DEF ServerInv, ListenInv
    <2> QED
      BY <1>t, <2>1, <2>2, <2>3, ClosedFile
  <1>11. CASE HandlerStart
    <2>1. file' = file /\ app' = app /\ run' = run
      BY <1>11 DEF HandlerStart, appVars, runVars
    <2> QED
      BY <1>t, <2>1
  <1> QED
    BY <1>1, <1>2, <1>3, <1>4, <1>5, <1>6, <1>7, <1>8, <1>9, <1>10, <1>11, NextCases
       DEF OwnerStep, LoopStep, ForeignStep

\* m_server_fd is assigned by start() and given back in two places.
LEMMA StepListen == ServerInv /\ [Next]_vars => ListenInv'
  <1> SUFFICES ASSUME ServerInv, [Next]_vars, m_server_fd' # NoFd PROVE ListenInv'
    BY DEF ListenInv
  <1>t. /\ TypeInv /\ OwnerInv /\ ListenInv /\ m_server_fd \in Fd \cup {NoFd}
        /\ m_server_fd' \in Fd \cup {NoFd} /\ file \in [Fd -> Kind]
    BY StepFileTypes DEF ServerInv, TypeInv, TypeOK, Kind
  <1>1. CASE StartOk
    <2>1. /\ m_server_fd' = Lowest /\ file' = [file EXCEPT ![Lowest] = "listen"]
          /\ app' = "idle" /\ Lowest \in Fd
      BY <1>1, LowestIsFree DEF StartOk
    <2> QED
      BY <1>t, <2>1, Kinds DEF ListenInv
  <1>2. CASE StartFail \/ StopAssign \/ RunAssign
    BY <1>2 DEF StartFail, StopAssign, RunAssign
  <1>3. CASE ~(StartOk \/ StartFail \/ StopAssign \/ RunAssign)
    <2>1. m_server_fd' = m_server_fd
      BY <1>3, NextCases, ListenerStays
    <2>2. m_server_fd # NoFd /\ m_server_fd \in Fd /\ file[m_server_fd] \notin Conn
      BY <1>t, <2>1 DEF ListenInv
    <2>3. file'[m_server_fd] \notin Conn
      <3>1. CASE file'[m_server_fd] = file[m_server_fd]
        BY <2>2, <3>1
      <3>2. CASE file'[m_server_fd] # file[m_server_fd]
        <4>1. ASSUME NEW c \in Conn, RunAccept(c) PROVE file[m_server_fd] = "listen"
          BY <4>1, <2>2 DEF RunAccept, Listening
        <4>2. ASSUME StopClient(m_server_fd) PROVE FALSE
          BY <4>2, <1>t, <2>2 DEF StopClient, ListenInv
        <4> QED
          BY <2>2, <3>2, <4>1, <4>2, FileMoves
      <3> QED
        BY <3>1, <3>2
    <2> QED
      BY <1>3, <1>t, <2>1, <2>2, <2>3, ListenerGoesOn DEF ListenInv
  <1> QED
    BY <1>1, <1>2, <1>3

\* The connection that run() holds, and those with a handler, but for accept.
LEMMA HeldStays ==
    ASSUME [Next]_vars, ~\E c \in Conn : RunAccept(c)
    PROVE  fdOf' = fdOf /\ (accepted' = accepted \/ (RunInsert /\ accepted' = NoConn))
  <1>1. ASSUME NEW c \in Conn, HandlerMove(c) \/ HandlerEnd(c)
        PROVE  fdOf' = fdOf /\ accepted' = accepted
    BY <1>1 DEF HandlerMove, HandlerTest, HandlerCall, HandlerRecv, HandlerReply, HandlerSent,
                HandlerEnd, runVars
  <1>2. CASE OwnerStep \/ LoopStep \/ ForeignStep \/ UNCHANGED vars
    BY <1>2, CalmSteps DEF connVars
  <1>3. CASE StartOk \/ StopJoin \/ RunLeave \/ RunEnd \/ HandlerStart
    BY <1>3 DEF StartOk, StopJoin, RunLeave, RunEnd, HandlerStart, connVars, runVars
  <1>4. CASE RunInsert
    BY <1>4 DEF RunInsert, connVars
  <1> QED
    BY <1>1, <1>2, <1>3, <1>4, NextCases

\* A handler is live because it was, or because run() has just submitted it.
LEMMA LiveBefore ==
    ASSUME ServerInv, [Next]_vars, NEW c \in Conn, Live(c)'
    PROVE  Live(c) \/ (RunInsert /\ c = accepted)
  <1>t. TypeInv /\ PoolInv
    BY DEF ServerInv
  <1>1. CASE OwnerStep \/ LoopStep \/ ForeignStep \/ UNCHANGED vars
    BY <1>1, CalmSteps DEF poolVars, Live, Queued
  <1>2. CASE StartOk \/ RunEnd
    <2>1. queue' = <<>> /\ active' \subseteq active
      BY <1>2, PoolSteps DEF StartOk, RunEnd
    <2> QED
      BY <2>1, QueueEmptied DEF Live
  <1>3. CASE StopJoin \/ RunLeave
    BY <1>3, PoolSteps DEF StopJoin, RunLeave, poolVars, Live, Queued
  <1>4. ASSUME NEW d \in Conn, RunAccept(d) PROVE Live(c)
    BY <1>4 DEF RunAccept, poolVars, Live, Queued
  <1>5. CASE RunInsert
    <2>1. Pool!Submit(accepted) /\ accepted \in Conn
      BY <1>5 DEF RunInsert, ServerInv, ThreadInv
    <2>2. active' = active /\ (queue' = queue \/ queue' = Append(queue, accepted))
      BY <2>1, PoolSteps
    <2>3. CASE queue' = queue
      BY <2>2, <2>3 DEF Live, Queued
    <2>4. CASE queue' = Append(queue, accepted)
      BY <1>5, <1>t, <2>1, <2>2, <2>4, QueueAppended DEF Live
    <2> QED
      BY <2>2, <2>3, <2>4
  <1>6. CASE HandlerStart
    <2>1. /\ queue # <<>> /\ queue' = Tail(queue) /\ active' = active \cup {Head(queue)}
          /\ \A i, j \in 1..Len(queue) : queue[i] = queue[j] => i = j
      BY <1>6, <1>t, PoolSteps DEF HandlerStart, PoolInv
    <2> QED
      BY <1>t, <2>1, QueueTaken DEF Live
  <1>7. ASSUME NEW d \in Conn, HandlerMove(d) PROVE Live(c)
    BY <1>7, <1>t, MoveSteps DEF poolVars, Live, Queued
  <1>8. ASSUME NEW d \in Conn, HandlerEnd(d) PROVE Live(c)
    BY <1>8, PoolSteps DEF HandlerEnd, Live, Queued
  <1> QED
    BY <1>1, <1>2, <1>3, <1>4, <1>5, <1>6, <1>7, <1>8, NextCases

\* A handler that ends is not live, nor queued again.
LEMMA EndedIsNotLive ==
    ASSUME PoolInv, NEW c \in Conn, HandlerEnd(c)
    PROVE  ~Live(c)'
  <1>1. c \in active /\ active' = active \ {c} /\ queue' = queue
    BY PoolSteps DEF HandlerEnd
  <1> QED
    BY <1>1 DEF PoolInv, Live, Queued

LEMMA AcceptKeepsConn ==
    ASSUME ServerInv, [Next]_vars, NEW c \in Conn, RunAccept(c)
    PROVE  ConnInv'
  <1>t. /\ file \in [Fd -> Kind] /\ fdOf \in [Conn -> Fd \cup {NoFd}]
        /\ ConnInv /\ PoolInv
    BY DEF ServerInv, TypeInv, TypeOK, Kind
  <1>1. /\ Lowest \in Fd /\ file[Lowest] = "free" /\ m_server_fd # NoFd
        /\ file' = [file EXCEPT ![Lowest] = c] /\ fdOf' = [fdOf EXCEPT ![c] = Lowest]
        /\ accepted' = c /\ future[c] = "none" /\ fdOf[c] = NoFd /\ app' = app
        /\ UNCHANGED poolVars
    BY LowestIsFree DEF RunAccept, Listening, appVars
  <1>2. ASSUME NEW g \in Fd, file'[g] \in Conn PROVE fdOf'[file'[g]] = g
    <2>1. CASE g = Lowest
      BY <1>t, <1>1, <2>1
    <2>2. CASE g # Lowest
      <3>1. file'[g] = file[g] /\ fdOf[file[g]] = g
        BY <1>t, <1>1, <1>2, <2>2 DEF ConnInv
      <3>2. file[g] # c
        BY <1>1, <3>1, Kinds
      <3> QED
        BY <1>t, <1>1, <1>2, <3>1, <3>2
    <2> QED
      BY <2>1, <2>2
  <1>3. file'[fdOf'[accepted']] = accepted'
    BY <1>t, <1>1
  <1>4. ASSUME NEW d \in Conn, Live(d)' PROVE file'[fdOf'[d]] = d
    <2>1. Live(d)
      BY <1>1, <1>4 DEF poolVars, Live, Queued
    <2>2. d # c /\ fdOf[d] \in Fd
      BY <1>t, <1>1, <2>1 DEF PoolInv
    <2>3. app \notin {"clients", "join"}
      BY <1>1 DEF ServerInv, ListenInv
    <2>4. file[fdOf[d]] = d
      BY <1>t, <2>1, <2>3 DEF ConnInv
    <2>5. fdOf[d] # Lowest
      BY <1>1, <2>4, Kinds
    <2> QED
      BY <1>t, <1>1, <2>2, <2>4, <2>5
  <1> QED
    BY <1>2, <1>3, <1>4 DEF ConnInv

\* stop() is not left behind its loop before the handlers have ended.
LEMMA StopStaysBehind ==
    ASSUME [Next]_vars, app \in {"clients", "join"}, ~StopJoin
    PROVE  app' \in {"clients", "join"}
  <1>1. CASE StartAgain \/ StartFail \/ StartOk \/ OwnerStep
    BY <1>1 DEF OwnerStep, StartAgain, StartFail, StartOk, Stop, StopShutdown, StopClose,
                StopAssign, StopLock, StopClient, StopClear
  <1>2. CASE ~(StartAgain \/ StartFail \/ StartOk \/ OwnerStep)
    BY <1>2, NextCases, OwnerCalm
  <1> QED
    BY <1>1, <1>2

LEMMA StepConn == ServerInv /\ [Next]_vars => ConnInv'
  <1> SUFFICES ASSUME ServerInv, [Next]_vars, ~\E c \in Conn : RunAccept(c) PROVE ConnInv'
    BY AcceptKeepsConn
  <1>t. /\ TypeInv /\ PoolInv /\ ThreadInv /\ ConnInv
        /\ fdOf' = fdOf /\ (accepted' = accepted \/ accepted' = NoConn)
    BY HeldStays DEF ServerInv
  <1>1. ASSUME NEW g \in Fd, file'[g] \in Conn PROVE file'[g] = file[g]
    BY <1>1, FileMoves, Kinds
  <1>2. \A g \in Fd : file'[g] \in Conn => fdOf'[file'[g]] = g
    BY <1>t, <1>1 DEF ConnInv
  <1>3. ASSUME accepted' # NoConn PROVE file'[fdOf'[accepted']] = accepted'
    <2>1. /\ accepted' = accepted /\ accepted \in Conn /\ future[accepted] = "none"
          /\ fdOf[accepted] \in Fd /\ file[fdOf[accepted]] = accepted
      BY <1>3, <1>t DEF ThreadInv, ConnInv
    <2>2. ASSUME NEW c \in Conn, HandlerEnd(c) PROVE c # accepted
      <3>1. c \in active
        BY <2>2, PoolSteps DEF HandlerEnd
      <3> QED
        BY <1>t, <2>1, <3>1 DEF PoolInv, Live
    <2> QED
      BY <1>t, <2>1, <2>2, FileMoves
  <1>4. ASSUME NEW d \in Conn, Live(d)'
        PROVE  \/ file'[fdOf'[d]] = d
               \/ file'[fdOf'[d]] \notin Conn /\ app' \in {"clients", "join"}
    <2>1. /\ fdOf[d] \in Fd
          /\ \/ file[fdOf[d]] = d
             \/ file[fdOf[d]] \notin Conn /\ app \in {"clients", "join"}
      <3>1. CASE Live(d)
        BY <1>t, <3>1 DEF PoolInv, ConnInv
      <3>2. CASE RunInsert /\ d = accepted
        <4>1. accepted # NoConn
          BY <3>2, Kinds
        <4> QED
          BY <1>t, <3>2, <4>1 DEF ThreadInv, ConnInv
      <3> QED
        BY <1>4, <3>1, <3>2, LiveBefore
    <2>2. ASSUME StopJoin PROVE FALSE
      <3>1. active = {} /\ queue = <<>> /\ active' = active /\ queue' = queue
        BY <2>2, <1>t DEF StopJoin, Joinable, ThreadInv, poolVars
      <3>2. queue' = <<>>
        BY <3>1
      <3> QED
        BY <1>4, <3>1, <3>2, QueueEmptied DEF Live
    <2>3. CASE file[fdOf[d]] = d /\ file'[fdOf[d]] # d
      <3>1. ASSUME StopClient(fdOf[d]) PROVE app' \in {"clients", "join"}
        BY <3>1 DEF StopClient
      <3>2. ASSUME NEW c \in Conn, HandlerEnd(c), c = d PROVE FALSE
        BY <3>2, <1>4, <1>t, EndedIsNotLive
      <3> QED
        BY <1>t, <2>1, <2>3, <3>1, <3>2, FileMoves, Kinds
    <2>4. CASE file[fdOf[d]] \notin Conn /\ app \in {"clients", "join"}
      <3>1. file'[fdOf[d]] \notin Conn
        BY <1>1, <2>1, <2>4
      <3> QED
        BY <1>t, <2>2, <2>4, <3>1, StopStaysBehind
    <2> QED
      BY <1>t, <2>1, <2>3, <2>4
  <1> QED
    BY <1>2, <1>3, <1>4 DEF ConnInv

-----------------------------------------------------------------------------
(* m_clients                                                               *)

\* Steps that neither track a connection nor let one go.
LEMMA CalmTracked ==
    ASSUME ServerInv, [Next]_vars,
           \A g \in Fd : file'[g] # file[g] => file[g] \notin Conn /\ file'[g] \notin Conn,
           accepted' = accepted, (IF Locked' THEN toClose' ELSE m_clients')
                                     = (IF Locked THEN toClose ELSE m_clients)
    PROVE  ClientsTracked'
  BY DEF ServerInv, ClientsTracked

\* What the other steps leave alone.
LEMMA ClientsStay ==
    ASSUME ServerInv, [Next]_vars,
           ~(\/ (\E c \in Conn : RunAccept(c)) \/ RunInsert \/ (\E fd \in Fd : StopClient(fd))
             \/ StopLock \/ StopClear \/ (\E c \in Conn : HandlerEnd(c)))
    PROVE  (IF Locked' THEN toClose' ELSE m_clients') = (IF Locked THEN toClose ELSE m_clients)
  <1>1. CASE StartAgain \/ StartFail \/ StartOk \/ Stop \/ StopShutdown \/ StopClose \/ StopAssign
             \/ StopJoin
    <2>1. UNCHANGED <<m_clients, toClose>> /\ ~Locked /\ ~Locked'
      BY <1>1 DEF StartAgain, StartFail, StartOk, Stop, StopShutdown, StopClose, StopAssign,
                  StopJoin, serverVars, Locked
    <2> QED
      BY <2>1
  <1>2. CASE LoopStep \/ ForeignStep \/ RunLeave \/ RunEnd \/ HandlerStart \/ UNCHANGED vars
    <2>1. m_clients' = m_clients
      BY <1>2 DEF LoopStep, ForeignStep, RunLeave, RunEnd, HandlerStart, vars, serverVars,
                  RunTest, RunCall, RunTransient, RunFatal, RunClose, RunAssign,
                  ForeignOpen, ForeignClose
    <2> QED
      BY <1>2, <2>1, OwnerCalm DEF Locked
  <1>3. ASSUME NEW c \in Conn, HandlerMove(c)
        PROVE  UNCHANGED <<m_clients, app, toClose>>
    BY <1>3, MoveSteps DEF ServerInv, serverVars, appVars
  <1> QED
    BY <1>1, <1>2, <1>3, NextCases DEF OwnerStep, Locked

LEMMA StepTracked == ServerInv /\ [Next]_vars => ClientsTracked'
  <1> SUFFICES ASSUME ServerInv, [Next]_vars PROVE ClientsTracked'
    OBVIOUS
  <1>t. /\ TypeInv /\ PoolInv /\ ThreadInv /\ ConnInv /\ ClientsTracked
        /\ file \in [Fd -> Kind] /\ fdOf \in [Conn -> Fd \cup {NoFd}] /\ m_clients \subseteq Fd
    BY DEF ServerInv, TypeInv, TypeOK, Kind
  <1>1. ASSUME NEW c \in Conn, RunAccept(c) PROVE ClientsTracked'
    <2>1. /\ file' = [file EXCEPT ![Lowest] = c] /\ Lowest \in Fd /\ file[Lowest] = "free"
          /\ accepted' = c /\ accepted = NoConn /\ fdOf[c] = NoFd
          /\ UNCHANGED <<m_clients, app, toClose>>
      BY <1>1, <1>t, LowestIsFree
         DEF RunAccept, Listening, ThreadInv, appVars, serverVars
    <2>2. ASSUME NEW g \in Fd, g # Lowest, file[g] \in Conn PROVE file[g] # c /\ file[g] # NoConn
      BY <1>t, <2>1, <2>2, Kinds DEF ConnInv
    <2>3. ASSUME NEW g \in Fd
          PROVE  g \in (IF Locked' THEN toClose' ELSE m_clients') <=>
                     file'[g] \in Conn /\ file'[g] # accepted'
      <3>1. CASE g = Lowest
        BY <1>t, <2>1, <3>1, Kinds DEF ClientsTracked, Locked
      <3>2. CASE g # Lowest
        BY <1>t, <2>1, <2>2, <3>2 DEF ClientsTracked, Locked
      <3> QED
        BY <3>1, <3>2
    <2> QED
      BY <2>3 DEF ClientsTracked
  <1>2. CASE RunInsert
    <2>1. /\ ~Locked /\ ~Locked' /\ accepted \in Conn /\ fdOf[accepted] \in Fd
          /\ file[fdOf[accepted]] = accepted /\ accepted' = NoConn /\ file' = file
          /\ m_clients' = m_clients \cup {fdOf[accepted]}
      BY <1>2, <1>t, Kinds DEF RunInsert, Tracked, ThreadInv, ConnInv, Locked, appVars
    <2>2. \A g \in Fd : file[g] = accepted <=> g = fdOf[accepted]
      BY <1>t, <2>1 DEF ConnInv
    <2> QED
      BY <1>t, <2>1, <2>2, Kinds DEF ClientsTracked
  <1>3. ASSUME NEW fd \in Fd, StopClient(fd) PROVE ClientsTracked'
    <2>1. /\ file' = Closed(fd) /\ toClose' = toClose \ {fd} /\ Locked /\ Locked'
          /\ accepted' = accepted
      BY <1>3 DEF StopClient, Locked, runVars
    <2>2. /\ \A g \in Fd : g # fd => file'[g] = file[g]
          /\ file'[fd] \notin Conn
      BY <1>t, <2>1, ClosedFile, Kinds
    <2> QED
      BY <1>t, <2>1, <2>2 DEF ClientsTracked
  <1>4. CASE StopLock \/ StopClear
    <2>1. /\ file' = file /\ accepted' = accepted
          /\ (IF Locked' THEN toClose' ELSE m_clients') = (IF Locked THEN toClose ELSE m_clients)
      BY <1>4 DEF StopLock, StopClear, Locked, runVars
    <2> QED
      BY <2>1, CalmTracked
  <1>5. ASSUME NEW c \in Conn, HandlerEnd(c) PROVE ClientsTracked'
    <2>1. /\ file' = Closed(fdOf[c]) /\ m_clients' = m_clients \ {fdOf[c]} /\ ~Locked /\ ~Locked'
          /\ accepted' = accepted /\ c \in active
      BY <1>5, PoolSteps DEF HandlerEnd, Locked, appVars, runVars
    <2>2. /\ fdOf[c] \in Fd
          /\ \A g \in Fd : g # fdOf[c] => file'[g] = file[g]
          /\ file'[fdOf[c]] \notin Conn
      BY <1>t, <2>1, ClosedFile, Kinds DEF PoolInv, Live
    <2> QED
      BY <1>t, <2>1, <2>2 DEF ClientsTracked
  <1>6. CASE ~(\/ (\E c \in Conn : RunAccept(c)) \/ RunInsert \/ (\E fd \in Fd : StopClient(fd))
               \/ StopLock \/ StopClear \/ (\E c \in Conn : HandlerEnd(c)))
    <2>1. accepted' = accepted
      BY <1>6, HeldStays
    <2>2. \A g \in Fd : file'[g] # file[g] => file[g] \notin Conn /\ file'[g] \notin Conn
      BY <1>6, FileMoves
    <2>3. (IF Locked' THEN toClose' ELSE m_clients') = (IF Locked THEN toClose ELSE m_clients)
      BY <1>6, ClientsStay
    <2> QED
      BY <2>1, <2>2, <2>3, CalmTracked
  <1> QED
    BY <1>1, <1>2, <1>3, <1>4, <1>5, <1>6

-----------------------------------------------------------------------------
(* The theorems                                                            *)

LEMMA InitServer == Init => ServerInv
  <1> SUFFICES ASSUME Init PROVE ServerInv
    OBVIOUS
  <1>1. /\ queue = <<>> /\ active = {} /\ future = [c \in Conn |-> "none"]
    BY DEF Init, Pool!Init
  <1>2. queue \in Seq(Conn) /\ Len(queue) = 0 /\ \A c \in Conn : ~Live(c)
    BY <1>1, EmptySeq DEF Live, Queued
  <1>3. TypeInv
    BY <1>1, <1>2 DEF Init, TypeInv, TypeOK, AppPC, RunPC, HandlerPC, NoFd
  <1>4. PoolInv /\ ThreadInv /\ OwnerInv /\ ListenInv
    BY <1>1, <1>2 DEF Init, PoolInv, ThreadInv, OwnerInv, ListenInv, Locked, NeverTerminates
  <1>5. ConnInv /\ ClientsTracked
    BY <1>2, Kinds DEF Init, ConnInv, ClientsTracked, Locked
  <1> QED
    BY <1>3, <1>4, <1>5 DEF ServerInv

LEMMA StepServer == ServerInv /\ [Next]_vars => ServerInv'
  <1> SUFFICES ASSUME ServerInv, [Next]_vars PROVE ServerInv'
    OBVIOUS
  <1>1. TypeInv' /\ PoolInv' /\ ThreadInv' /\ OwnerInv'
    BY StepTypes, StepThread, StepOwner
  <1>2. ListenInv' /\ ConnInv' /\ ClientsTracked'
    BY StepListen, StepConn, StepTracked
  <1> QED
    BY <1>1, <1>2 DEF ServerInv

\* ServerInv holds in every state.
THEOREM Invariant == Spec => []ServerInv
  BY InitServer, StepServer, PTL DEF Spec

\* The types hold in every state; in particular stop() closes only what is in
\* m_clients.
THEOREM TypeCorrect == Spec => []TypeOK
  <1>1. ServerInv => TypeOK
    BY DEF ServerInv, TypeInv
  <1> QED
    BY <1>1, Invariant, PTL

\* m_clients is exactly the open connections, but for the one just accepted
\* (lines 69-74, 94, 165 of tcpserver.cpp), for any number of them and whatever
\* descriptors other code opens and closes.
THEOREM ClientsAreTracked == Spec => []ClientsTracked
  <1>1. ServerInv => ClientsTracked
    BY DEF ServerInv
  <1> QED
    BY <1>1, Invariant, PTL

\* When the server thread has ended or been joined, no handler runs: the pool
\* that run() destroys (line 113) has joined its threads.
THEOREM NoHandlerIsLeft == Spec => []NoHandlerOutlives
  <1>1. ServerInv => NoHandlerOutlives
    BY DEF ServerInv, ThreadInv, PoolInv, NoHandlerOutlives
  <1> QED
    BY <1>1, Invariant, PTL

\* start() (line 53) never assigns over a joinable thread.
THEOREM StartIsSafe == Spec => []NeverTerminates
  <1>1. ServerInv => NeverTerminates
    BY DEF ServerInv, OwnerInv
  <1> QED
    BY <1>1, Invariant, PTL

\* How close_server() and handle_client() leave the files of other code alone.
LEMMA StepServing ==
    ASSUME ServerInv, [Next]_vars, NEW fd \in Fd,
           file[fd] = "foreign", file'[fd] # "foreign", m_running
    PROVE  ForeignClose(fd)
  <1>t. /\ TypeInv /\ app = "idle" /\ m_server_fd \in Fd \cup {NoFd} /\ file \in [Fd -> Kind]
        /\ fdOf \in [Conn -> Fd \cup {NoFd}]
    BY DEF ServerInv, OwnerInv, TypeInv, TypeOK, Kind
  <1>1. ~(StartAgain \/ StartFail \/ StartOk \/ Stop \/ StopShutdown \/ StopClose \/ StopAssign
          \/ StopLock \/ (\E g \in Fd : StopClient(g)) \/ StopClear \/ StopJoin \/ UNCHANGED vars)
    BY <1>t DEF StartAgain, StartFail, StartOk, Stop, StopShutdown, StopClose, StopAssign, StopLock,
                StopClient, StopClear, StopJoin, vars
  <1>2. ~(RunTest \/ RunCall \/ RunTransient \/ RunFatal \/ RunAssign \/ RunInsert \/ RunLeave
          \/ RunEnd \/ HandlerStart)
    BY DEF RunTest, RunCall, RunTransient, RunFatal, RunAssign, RunInsert, RunLeave, RunEnd,
           HandlerStart
  <1>3. ~RunClose
    <2>1. SUFFICES ASSUME RunClose PROVE FALSE
      OBVIOUS
    <2>2. file' = Closed(m_server_fd) /\ run = "closing"
      BY <2>1 DEF RunClose
    <2>3. m_server_fd # NoFd /\ fd = m_server_fd
      BY <1>t, <2>2, ClosedFile DEF Closed
    <2> QED
      BY <1>t, <2>2, <2>3 DEF ServerInv, ListenInv
  <1>4. ASSUME NEW c \in Conn, RunAccept(c) PROVE FALSE
    <2>1. file' = [file EXCEPT ![Lowest] = c] /\ Lowest \in Fd /\ file[Lowest] = "free"
      BY <1>4, LowestIsFree DEF RunAccept, Listening
    <2> QED
      BY <1>t, <2>1
  <1>5. ASSUME NEW c \in Conn, HandlerMove(c) PROVE FALSE
    BY <1>5, <1>t, MoveSteps
  <1>6. ASSUME NEW c \in Conn, HandlerEnd(c) PROVE FALSE
    <2>1. file' = Closed(fdOf[c]) /\ c \in active
      BY <1>6, PoolSteps DEF HandlerEnd
    <2>2. fd = fdOf[c]
      BY <1>t, <2>1, ClosedFile DEF Closed
    <2>3. file[fd] = c
      BY <1>t, <2>1, <2>2 DEF ServerInv, ConnInv, Live
    <2> QED
      BY <2>3, Kinds
  <1>7. ~ForeignOpen
    <2>1. SUFFICES ASSUME ForeignOpen PROVE FALSE
      OBVIOUS
    <2>2. file' = [file EXCEPT ![Lowest] = "foreign"] /\ Lowest \in Fd
      BY <2>1, LowestIsFree DEF ForeignOpen
    <2> QED
      BY <1>t, <2>2
  <1>8. ASSUME NEW g \in Fd, ForeignClose(g) PROVE g = fd
    BY <1>8, <1>t, ClosedFile DEF ForeignClose
  <1> QED
    BY <1>1, <1>2, <1>3, <1>4, <1>5, <1>6, <1>7, <1>8, NextCases DEF OwnerStep, LoopStep, ForeignStep

\* While m_running is set, close_server() and handle_client() (lines 172 and
\* 166) close no file of other code, whatever numbers earlier stops gave back.
THEOREM ServingIsHarmless == Spec => ServingClosesOwn
  <1>1. ASSUME ServerInv, [Next]_vars
        PROVE  [\A fd \in Fd : (file[fd] = "foreign" /\ file'[fd] # "foreign" /\ m_running)
                                   => ForeignClose(fd)]_vars
    BY <1>1, StepServing
  <1> QED
    BY <1>1, Invariant, PTL DEF Spec, ServingClosesOwn

=============================================================================
