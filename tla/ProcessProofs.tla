---------------------------- MODULE ProcessProofs ----------------------------
(***************************************************************************)
(* Theorems about the two models of linux/process.cpp: Executable, for     *)
(* every number of objects and pids, and Foreground, for every number of   *)
(* processes, every pipe and any amount of output.                         *)
(***************************************************************************)
EXTENDS Executable, Foreground, TLAPS

-----------------------------------------------------------------------------
(* Executable.  PidPinned is inductive together with the types: a child of *)
(* ours leaves the process table in Waited only, which puts its pid in     *)
(* loose, and no step changes the parent of a child of ours.  KilledIsDead *)
(* rests on it: what kill() has signalled is a zombie that only join()     *)
(* could reap, and our one thread is still inside kill().                  *)


\* The inductive invariant.
PidInv == TypeOK /\ PidPinned /\ KilledIsDead

\* The constants' names of parents are no pids.
LEMMA Parents == NoPid \notin Pid /\ Us \notin Pid /\ System \notin Pid /\ Us # System
  BY PidAssumption

\* Nothing is started yet.
LEMMA InitPidInv == Init => PidInv
  BY Parents DEF Init, PidInv, TypeOK, PidPinned, KilledIsDead

\* A process that ends: it is a zombie, the others keep what they are, and
\* children of ours keep their parent.
LEMMA EndedFacts ==
    ASSUME TypeOK, NEW p \in Pid, Ended(p)
    PROVE  /\ status' \in [Pid -> {"free", "running", "zombie"}]
           /\ parent' \in [Pid -> Pid \cup {Us, System}]
           /\ status'[p] = "zombie"
           /\ \A q \in Pid \ {p} : status'[q] = status[q]
           /\ \A q \in Pid : parent[q] = Us => parent'[q] = Us
  BY Parents DEF TypeOK, Ended

\* SIGKILL: a process that existed exists still, as a zombie if it was the
\* one signalled, and the objects' children keep their parent.
LEMMA SignalledFacts ==
    ASSUME TypeOK, NEW p \in Pid, Signalled(p)
    PROVE  /\ status' \in [Pid -> {"free", "running", "zombie"}]
           /\ parent' \in [Pid -> Pid \cup {Us, System}]
           /\ status[p] # "free" => status'[p] = "zombie"
           /\ \A q \in Pid \ {p} : status'[q] = status[q]
           /\ \A q \in Pid : parent[q] = Us => parent'[q] = Us
           /\ status[p] = "free" => status'[p] = "free"
  <1>1. CASE status[p] = "running"
    <2>1. Ended(p)
      BY <1>1 DEF Signalled
    <2> QED
      BY <1>1, <2>1, EndedFacts
  <1>2. CASE status[p] # "running"
    BY <1>2 DEF Signalled, processVars, TypeOK
  <1> QED
    BY <1>1, <1>2

\* Every step keeps the invariant.
LEMMA StepPidInv == PidInv /\ [Next]_vars => PidInv'
  <1> SUFFICES ASSUME PidInv, [Next]_vars
               PROVE  PidInv'
    OBVIOUS
  <1>t. TypeOK /\ PidPinned /\ KilledIsDead
    BY DEF PidInv
  <1> USE DEF is_pid_running, isRunning, Free, getProcessChilds
  <1>1. ASSUME NEW e \in Exe, NEW p \in Pid, Start(e, p)
        PROVE  PidInv'
    BY <1>1, <1>t, Parents DEF Start, Spawned, PidInv, TypeOK, PidPinned, KilledIsDead
  <1>2. ASSUME NEW e \in Exe, StartForkFails(e)
        PROVE  PidInv'
    BY <1>2, <1>t, Parents
    DEF StartForkFails, PidInv, TypeOK, PidPinned, KilledIsDead, processVars
  <1>3. ASSUME NEW e \in Exe, NEW other \in Exe, CopyAssign(e, other)
        PROVE  PidInv'
    BY <1>3, <1>t, Parents
    DEF CopyAssign, PidInv, TypeOK, PidPinned, KilledIsDead, processVars
  <1>4. ASSUME NEW e \in Exe, NEW other \in Exe, Move(e, other)
        PROVE  PidInv'
    BY <1>4, <1>t DEF Move, PidInv, TypeOK, PidPinned, KilledIsDead, processVars
  <1>5. ASSUME NEW e \in Exe, Kill(e)
        PROVE  PidInv'
    BY <1>5, <1>t DEF Kill, PidInv, TypeOK, PidPinned, KilledIsDead, processVars
  <1>6. ASSUME NEW e \in Exe, Destroy(e)
        PROVE  PidInv'
    <2>1. CASE isRunning(e)
      BY <1>5, <1>6, <2>1 DEF Destroy
    <2>2. CASE ~isRunning(e)
      BY <1>6, <2>2, <1>t, Parents
      DEF Destroy, PidInv, TypeOK, PidPinned, KilledIsDead, processVars
    <2> QED
      BY <2>1, <2>2
  <1>6a. ASSUME NEW e \in Exe, DestroyThrows(e)
         PROVE  PidInv'
    BY <1>6a, <1>t, Parents
    DEF DestroyThrows, PidInv, TypeOK, PidPinned, KilledIsDead
  <1>7. ASSUME NEW e \in Exe, Join(e)
        PROVE  PidInv'
    BY <1>7, <1>t DEF Join, PidInv, TypeOK, PidPinned, KilledIsDead, processVars
  <1>8. ASSUME KillParent
        PROVE  PidInv'
    <2>1. m_pid[self] \in Pid /\ Signalled(m_pid[self]) /\ pc' = "childs"
          /\ UNCHANGED <<m_pid, self, childs, loose>>
      BY <1>8, <1>t DEF KillParent, TypeOK
    <2>2. TypeOK'
      BY <2>1, <1>t, SignalledFacts DEF TypeOK
    <2>3. PidPinned'
      BY <2>1, <1>t, SignalledFacts DEF PidPinned, TypeOK
    <2>4. KilledIsDead'
      <3>1. self \in Exe
        BY <1>t DEF TypeOK
      <3>2. m_pid[self] \notin loose => status[m_pid[self]] # "free"
        BY <2>1, <3>1, <1>t DEF PidPinned
      <3> QED
        BY <2>1, <3>2, <1>t, SignalledFacts DEF KilledIsDead
    <2> QED
      BY <2>2, <2>3, <2>4 DEF PidInv
  <1>9. ASSUME NEW p \in Pid, KillChild(p)
        PROVE  PidInv'
    <2>1. Signalled(p) /\ childs' = childs \ {p} /\ UNCHANGED <<m_pid, pc, self, loose>>
      BY <1>9 DEF KillChild
    <2>2. TypeOK'
      BY <2>1, <1>t, SignalledFacts DEF TypeOK
    <2>3. PidPinned'
      BY <2>1, <1>t, SignalledFacts DEF PidPinned, TypeOK
    <2>4. KilledIsDead'
      BY <2>1, <1>t, SignalledFacts DEF KilledIsDead, TypeOK
    <2> QED
      BY <2>2, <2>3, <2>4 DEF PidInv
  <1>10. ASSUME KillDone
         PROVE  PidInv'
    BY <1>10, <1>t, Parents
    DEF KillDone, PidInv, TypeOK, PidPinned, KilledIsDead, processVars
  <1>11. ASSUME Waited
         PROVE  PidInv'
    <2>1. m_pid[self] \in Pid
      BY <1>11, <1>t DEF Waited, TypeOK
    <2> QED
      BY <1>11, <2>1, <1>t
      DEF Waited, Freed, PidInv, TypeOK, PidPinned, KilledIsDead, processVars
  <1>12. ASSUME NEW p \in Pid, Stranger(p)
         PROVE  PidInv'
    BY <1>12, <1>t
    DEF Stranger, Spawned, PidInv, TypeOK, PidPinned, KilledIsDead, objectVars
  <1>13. ASSUME NEW p \in Pid, Exit(p)
         PROVE  PidInv'
    <2>1. Ended(p) /\ UNCHANGED objectVars
      BY <1>13 DEF Exit
    <2> QED
      BY <2>1, <1>t, EndedFacts
      DEF objectVars, PidInv, TypeOK, PidPinned, KilledIsDead
  <1>14. ASSUME NEW p \in Pid, Reap(p)
         PROVE  PidInv'
    BY <1>14, <1>t
    DEF Reap, Freed, PidInv, TypeOK, PidPinned, KilledIsDead, objectVars
  <1>15. ASSUME NEW p \in Pid, NEW q \in Pid, Fork(p, q)
         PROVE  PidInv'
    BY <1>15, <1>t
    DEF Fork, Spawned, PidInv, TypeOK, PidPinned, KilledIsDead, objectVars
  <1>16. ASSUME UNCHANGED vars
         PROVE  PidInv'
    BY <1>16, <1>t DEF vars, PidInv, TypeOK, PidPinned, KilledIsDead
  <1> QED
    BY <1>1, <1>2, <1>3, <1>4, <1>5, <1>6, <1>6a, <1>7, <1>8, <1>9, <1>10, <1>11,
       <1>12, <1>13, <1>14, <1>15, <1>16 DEF Next, KillThrows

\* The invariant holds in every state.
LEMMA AlwaysPidInv == Spec => []PidInv
  BY InitPidInv, StepPidInv, PTL DEF Spec

\* Type correctness: kill(), the destructor and join() are never inside a call
\* on an object without a pid, so that no kill(-1, SIGKILL) is ever sent.
THEOREM TypeCorrect == Spec => []TypeOK
  <1>1. PidInv => TypeOK
    BY DEF PidInv
  <1> QED
    BY <1>1, AlwaysPidInv, PTL

\* However objects are started, copied, moved, killed and destroyed, an m_pid
\* that join() has not given back names a child of ours.
THEOREM PidsArePinned == Spec => []PidPinned
  <1>1. PidInv => PidPinned
    BY DEF PidInv
  <1> QED
    BY <1>1, AlwaysPidInv, PTL

\* kill() has ended the process by the time it turns to its children.
THEOREM KillEndsTheProcess == Spec => []KilledIsDead
  <1>1. PidInv => KilledIsDead
    BY DEF PidInv
  <1> QED
    BY <1>1, AlwaysPidInv, PTL

-----------------------------------------------------------------------------
(* Foreground.  OutputComplete is inductive with the types: a process gets *)
(* the write end from one that holds it, so that once nobody does nobody   *)
(* ever will.  ChildWaitedFor needs one thing more, that the child is one  *)
(* of the started processes and so is not started again by a fork of the   *)
(* command.                                                                *)


\* The child of the last call was started by it.
ChildStarted == childpid \in started \cup {NoProc}

\* The inductive invariant.
CallInv == RunTypeOK /\ OutputComplete /\ ChildStarted /\ ChildWaitedFor

LEMMA InitCallInv == RunInit => CallInv
  <1> SUFFICES ASSUME RunInit PROVE CallInv
    OBVIOUS
  <1> USE ForegroundAssumption DEF RunInit
  <1>1. todo \in [Proc -> 0..MaxOutput] /\ 0 \in 0..MaxFd
    OBVIOUS
  <1>2. written \in Nat /\ got \in 0..written /\ written - got <= PipeSize
    OBVIOUS
  <1>3. RunTypeOK
    BY <1>1, <1>2 DEF RunTypeOK
  <1> QED
    BY <1>3 DEF CallInv, OutputComplete, ChildStarted, ChildWaitedFor

\* A command that has just been forked has one process and no output.
JustForked(p) ==
    /\ childpid' = p /\ started' = {p} /\ running' = {p}
    /\ todo' \in [Proc -> 0..MaxOutput]
    /\ reaped' = FALSE /\ stray' = FALSE /\ interrupted' = FALSE
    /\ written' = 0 /\ got' = 0

LEMMA ForkedFacts ==
    ASSUME NEW p \in Proc, NEW n \in 0..MaxOutput, Forked(p, n)
    PROVE  JustForked(p)
  BY ForegroundAssumption DEF Forked, JustForked

\* From there the invariant holds, whether the command has the pipe or not.
LEMMA JustForkedInv ==
    ASSUME NEW p \in Proc, JustForked(p), fds' \in 0..MaxFd,
           \/ at' = "wait" /\ holders' = {}
           \/ at' = "read" /\ holders' = {p}
    PROVE  CallInv'
  <1> USE ForegroundAssumption DEF JustForked
  <1>1. written' \in Nat /\ got' \in 0..written' /\ written' - got' <= PipeSize
    OBVIOUS
  <1>2. RunTypeOK'
    BY <1>1 DEF RunTypeOK
  <1> QED
    BY <1>2 DEF CallInv, OutputComplete, ChildStarted, ChildWaitedFor

\* Every step of the caller and of the command keeps the invariant.
LEMMA StepCallInv == CallInv /\ [RunNext]_runVars => CallInv'
  <1> SUFFICES ASSUME CallInv, [RunNext]_runVars
               PROVE  CallInv'
    OBVIOUS
  <1>t. RunTypeOK /\ OutputComplete /\ ChildStarted /\ ChildWaitedFor
    BY DEF CallInv
  <1> USE ForegroundAssumption
  <1> USE DEF callerVars, procVars
  <1>1. ASSUME NEW p \in Proc, CallPlain(p)
        PROVE  CallInv'
    <2>1. Forked(p, 0) /\ holders' = {} /\ at' = "wait" /\ fds' = fds
      BY <1>1 DEF CallPlain
    <2>2. 0 \in 0..MaxOutput
      OBVIOUS
    <2>3. JustForked(p)
      BY <2>1, <2>2, ForkedFacts DEF JustForked
    <2> QED
      BY <2>1, <2>3, <1>t, JustForkedInv DEF RunTypeOK
  <1>2. ASSUME NEW p \in Proc, NEW n \in 0..MaxOutput, CallPiped(p, n)
        PROVE  CallInv'
    <2>1. Forked(p, n) /\ holders' = {p} /\ at' = "read" /\ fds' = fds + 1
          /\ fds + 2 <= MaxFd
      BY <1>2 DEF CallPiped, Holding
    <2>2. JustForked(p)
      BY <2>1, ForkedFacts DEF JustForked
    <2>3. fds' \in 0..MaxFd
      BY <2>1, <1>t DEF RunTypeOK
    <2> QED
      BY <2>1, <2>2, <2>3, JustForkedInv
  <1>3. ASSUME ForkFails
        PROVE  CallInv'
    BY <1>3, <1>t
    DEF ForkFails, CallInv, RunTypeOK, OutputComplete, ChildStarted, ChildWaitedFor
  <1>4. ASSUME NEW n \in 1..PipeSize, Read(n)
        PROVE  CallInv'
    BY <1>4, <1>t
    DEF Read, CallInv, RunTypeOK, OutputComplete, ChildStarted, ChildWaitedFor
  <1>5. ASSUME ReadEnd
        PROVE  CallInv'
    BY <1>5, <1>t
    DEF ReadEnd, Eof, CallInv, RunTypeOK, OutputComplete, ChildStarted, ChildWaitedFor
  <1>6. ASSUME ReadFails
        PROVE  CallInv'
    BY <1>6, <1>t
    DEF ReadFails, CallInv, RunTypeOK, OutputComplete, ChildStarted, ChildWaitedFor
  <1>7. ASSUME Wait
        PROVE  CallInv'
    BY <1>7, <1>t
    DEF Wait, ChildEnded, CallInv, RunTypeOK, OutputComplete, ChildStarted, ChildWaitedFor
  <1>8. ASSUME WaitFails
        PROVE  CallInv'
    BY <1>8, <1>t
    DEF WaitFails, CallInv, RunTypeOK, OutputComplete, ChildStarted, ChildWaitedFor
  <1>9. ASSUME NEW p \in Proc, ProcWrite(p)
        PROVE  CallInv'
    BY <1>9, <1>t
    DEF ProcWrite, CallInv, RunTypeOK, OutputComplete, ChildStarted, ChildWaitedFor
  <1>10. ASSUME NEW p \in Proc, ProcClose(p)
         PROVE  CallInv'
    BY <1>10, <1>t
    DEF ProcClose, CallInv, RunTypeOK, OutputComplete, ChildStarted, ChildWaitedFor
  <1>11. ASSUME NEW p \in Proc, ProcExit(p)
         PROVE  CallInv'
    BY <1>11, <1>t
    DEF ProcExit, CallInv, RunTypeOK, OutputComplete, ChildStarted, ChildWaitedFor
  <1>12. ASSUME NEW p \in Proc, NEW q \in Proc, NEW n \in 0..MaxOutput,
                ProcFork(p, q, n)
         PROVE  CallInv'
    BY <1>12, <1>t
    DEF ProcFork, CallInv, RunTypeOK, OutputComplete, ChildStarted, ChildWaitedFor
  <1>12a. ASSUME ExecFails
          PROVE  CallInv'
    BY <1>12a, <1>t
    DEF ExecFails, CallInv, RunTypeOK, OutputComplete, ChildStarted, ChildWaitedFor
  <1>13. ASSUME UNCHANGED runVars
         PROVE  CallInv'
    BY <1>13, <1>t
    DEF runVars, CallInv, RunTypeOK, OutputComplete, ChildStarted, ChildWaitedFor
  <1> QED
    BY <1>1, <1>2, <1>3, <1>4, <1>5, <1>6, <1>7, <1>8, <1>9, <1>10, <1>11, <1>12,
       <1>12a, <1>13 DEF RunNext, PlainForkFails

\* The invariant holds in every state.
LEMMA AlwaysCallInv == RunSpec => []CallInv
  BY InitCallInv, StepCallInv, PTL DEF RunSpec

\* Type correctness: the caller never reads more than was written, the pipe
\* never holds more than fits, and only running processes hold its write end.
THEOREM CallTypesCorrect == RunSpec => []RunTypeOK
  <1>1. CallInv => RunTypeOK
    BY DEF CallInv
  <1> QED
    BY <1>1, AlwaysCallInv, PTL

\* When runForeground turns from reading to waiting, all output of the shell
\* and of the processes it left behind has reached the stream.
THEOREM WholeOutputCollected == RunSpec => []OutputComplete
  <1>1. CallInv => OutputComplete
    BY DEF CallInv
  <1> QED
    BY <1>1, AlwaysCallInv, PTL

\* A call that no signal interrupts leaves neither its child nor a zombie.
THEOREM ChildIsWaitedFor == RunSpec => []ChildWaitedFor
  <1>1. CallInv => ChildWaitedFor
    BY DEF CallInv
  <1> QED
    BY <1>1, AlwaysCallInv, PTL

=============================================================================
