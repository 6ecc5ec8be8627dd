----------------------------- MODULE Executable -----------------------------
(***************************************************************************)
(* ufw::Executable (linux/executable.hpp, linux/executable.cpp) over the   *)
(* functions of uprocess that it calls (linux/process.cpp), and the        *)
(* processes of the system around it.                                      *)
(*                                                                         *)
(* One thread of our program uses the objects.  The programs they start    *)
(* (a shell each), what these fork, and the rest of the system run beside  *)
(* it: a process that ends is a zombie until its parent has waited for it, *)
(* and only then may its pid be given to another.  Objects are places: a   *)
(* destroyed one leaves a default-constructed one behind.                  *)
(***************************************************************************)
EXTENDS Integers, FiniteSets

CONSTANTS Exe,    \* Executable objects
          Pid,    \* process ids
          NoPid,  \* an m_pid that is not positive
          Us,     \* our program, as a parent
          System  \* init and everybody else, as a parent

ASSUME PidAssumption == {NoPid, Us, System} \cap Pid = {} /\ Us # System

VARIABLES
    m_pid,
    status,   \* what each pid names
    parent,   \* and who its parent is
    pc,       \* where our thread is: "idle", in kill() or join(), or "terminated"
    self,     \* the object it is in a call of
    childs,   \* the children that kill() has yet to signal
    loose     \* history: pids join() gave back, or no fork returned, since
              \* they last named a child of ours

vars == <<m_pid, status, parent, pc, self, childs, loose>>
objectVars == <<m_pid, pc, self, childs, loose>>
processVars == <<status, parent>>

Free == {p \in Pid : status[p] = "free"}

Init ==
    /\ m_pid = [e \in Exe |-> NoPid]
    /\ status = [p \in Pid |-> "free"]
    /\ parent = [p \in Pid |-> System]
    /\ pc = "idle"
    /\ self \in Exe
    /\ childs = {}
    /\ loose = {}

-----------------------------------------------------------------------------
(* The kernel                                                              *)

\* fork: a free pid names a new process.
Spawned(p, by) ==
    /\ p \in Free
    /\ status' = [status EXCEPT ![p] = "running"]
    /\ parent' = [parent EXCEPT ![p] = by]

\* p ends: a zombie until its parent waits; its children are init's.
Ended(p) ==
    /\ status' = [status EXCEPT ![p] = "zombie"]
    /\ parent' = [q \in Pid |-> IF parent[q] = p THEN System ELSE parent[q]]

\* kill(p, SIGKILL); ESRCH, or a zombie, changes nothing.
Signalled(p) == IF status[p] = "running" THEN Ended(p) ELSE UNCHANGED processVars

\* Its parent has waited for p: the pid may be given away again.
Freed(p) ==
    /\ status' = [status EXCEPT ![p] = "free"]
    /\ parent' = [parent EXCEPT ![p] = System]

\* The pids under /proc, zombies included, whose PPid is p.
getProcessChilds(p) == {q \in Pid : status[q] # "free" /\ parent[q] = p}

\* uprocess::is_pid_running3: getpgid(p) knows every pid that names anything.
is_pid_running(p) == p \in Pid /\ status[p] # "free"

-----------------------------------------------------------------------------
(* Our program                                                             *)

isRunning(e) == is_pid_running(m_pid[e])

\* start(): fork succeeds.  A pid that m_pid held is forgotten.
Start(e, p) ==
    /\ pc = "idle"
    /\ Spawned(p, Us)
    /\ m_pid' = [m_pid EXCEPT ![e] = p]
    /\ loose' = loose \ {p}
    /\ UNCHANGED <<pc, self, childs>>

\* fork fails: runBackground returns a variable nothing was assigned to.
StartForkFails(e) ==
    /\ pc = "idle"
    /\ \E p \in Pid \cup {NoPid} :
          /\ m_pid' = [m_pid EXCEPT ![e] = p]
          /\ loose' = loose \cup ({p} \cap Pid)
    /\ UNCHANGED <<processVars, pc, self, childs>>

\* e = other: the pid is not copied, and the one e had is forgotten.
CopyAssign(e, other) ==
    /\ pc = "idle"
    /\ m_pid' = IF e = other THEN m_pid ELSE [m_pid EXCEPT ![e] = NoPid]
    /\ UNCHANGED <<processVars, pc, self, childs, loose>>

\* e = std::move(other), or Executable(std::move(other)): both hold the pid.
Move(e, other) ==
    /\ pc = "idle"
    /\ m_pid' = [m_pid EXCEPT ![e] = m_pid[other]]
    /\ UNCHANGED <<processVars, pc, self, childs, loose>>

\* Mutant of Kill: the test m_pid > 0 is dropped.
KillUntested(e) ==
    /\ pc = "idle"
    /\ pc' = "kill"
    /\ self' = e
    /\ childs' = getProcessChilds(m_pid[e])
    /\ UNCHANGED <<processVars, m_pid, loose>>

\* kill() reads the children of the process from /proc; a child that this
\* scan misses is like one forked after it.  Without a pid it does nothing.
Kill(e) ==
    /\ pc = "idle"
    /\ m_pid[e] \in Pid
    /\ pc' = "kill"
    /\ self' = e
    /\ childs' = getProcessChilds(m_pid[e])
    /\ UNCHANGED <<processVars, m_pid, loose>>

\* Reading /proc throws (no descriptor left, an entry that does not parse)
\* before kill() has changed anything, and the caller catches it.
KillThrows(e) ==
    /\ pc = "idle"
    /\ m_pid[e] \in Pid
    /\ UNCHANGED vars

\* Mutant of KillParent: only the children are signalled.
KillParentSpared ==
    /\ pc = "kill"
    /\ pc' = "childs"
    /\ UNCHANGED <<processVars, m_pid, self, childs, loose>>

KillParent ==
    /\ pc = "kill"
    /\ Signalled(m_pid[self])
    /\ pc' = "childs"
    /\ UNCHANGED <<m_pid, self, childs, loose>>

KillChild(p) ==
    /\ pc = "childs"
    /\ p \in childs
    /\ Signalled(p)
    /\ childs' = childs \ {p}
    /\ UNCHANGED <<m_pid, pc, self, loose>>

\* Mutant of KillDone: the process is waited for, the pid kept.
KillDoneReaped ==
    /\ pc = "childs"
    /\ childs = {}
    /\ Freed(m_pid[self])
    /\ pc' = "idle"
    /\ UNCHANGED <<m_pid, self, childs, loose>>

\* The zombie stays: nobody waits for it.
KillDone ==
    /\ pc = "childs"
    /\ childs = {}
    /\ m_pid' = [m_pid EXCEPT ![self] = NoPid]
    /\ pc' = "idle"
    /\ UNCHANGED <<processVars, self, childs, loose>>

\* The destructor, of an object that is running (kill() first), or is not.
Destroy(e) ==
    IF isRunning(e) THEN Kill(e)
    ELSE /\ pc = "idle"
         /\ m_pid' = [m_pid EXCEPT ![e] = NoPid]
         /\ UNCHANGED <<processVars, pc, self, childs, loose>>

\* Thrown in kill() under the destructor, which is noexcept, the exception ends
\* our program; init takes its children over.
DestroyThrows(e) ==
    /\ pc = "idle"
    /\ isRunning(e)
    /\ pc' = "terminated"
    /\ m_pid' = [o \in Exe |-> NoPid]
    /\ parent' = [q \in Pid |-> IF parent[q] = Us THEN System ELSE parent[q]]
    /\ UNCHANGED <<status, self, childs, loose>>

\* join(): isRunning(), then waitpid(), which fails at once (ECHILD) for a
\* process that is not a child of ours.
Join(e) ==
    /\ pc = "idle"
    /\ isRunning(e) /\ parent[m_pid[e]] = Us
    /\ pc' = "wait"
    /\ self' = e
    /\ UNCHANGED <<processVars, m_pid, childs, loose>>

\* waitpid() reaps the child, or a signal interrupts it; m_pid stays.
Waited ==
    /\ pc = "wait"
    /\ \/ /\ status[m_pid[self]] = "zombie"
          /\ Freed(m_pid[self])
          /\ loose' = loose \cup {m_pid[self]}
       \/ UNCHANGED <<processVars, loose>>
    /\ pc' = "idle"
    /\ UNCHANGED <<m_pid, self, childs>>

-----------------------------------------------------------------------------
(* Other processes                                                         *)

\* A program started by us, or by one of these, forks.
Fork(p, q) ==
    /\ status[p] = "running"
    /\ Spawned(q, p)
    /\ UNCHANGED objectVars

\* Somebody else starts a process.
Stranger(p) ==
    /\ Spawned(p, System)
    /\ UNCHANGED objectVars

Exit(p) ==
    /\ status[p] = "running"
    /\ Ended(p)
    /\ UNCHANGED objectVars

\* A parent other than our program waits for a child that has ended.
Reap(p) ==
    /\ status[p] = "zombie"
    /\ parent[p] # Us
    /\ Freed(p)
    /\ UNCHANGED objectVars

-----------------------------------------------------------------------------
Next ==
    \/ \E e \in Exe :
        \/ \E p \in Pid : Start(e, p)
        \/ StartForkFails(e)
        \/ \E other \in Exe : CopyAssign(e, other) \/ Move(e, other)
        \/ Kill(e) \/ KillThrows(e) \/ Destroy(e) \/ DestroyThrows(e) \/ Join(e)
    \/ KillParent \/ (\E p \in Pid : KillChild(p)) \/ KillDone
    \/ Waited
    \/ \E p \in Pid : Stranger(p) \/ Exit(p) \/ Reap(p) \/ \E q \in Pid : Fork(p, q)

Spec == Init /\ [][Next]_vars

-----------------------------------------------------------------------------
(* Properties                                                              *)

TypeOK ==
    /\ m_pid \in [Exe -> Pid \cup {NoPid}]
    /\ status \in [Pid -> {"free", "running", "zombie"}]
    /\ parent \in [Pid -> Pid \cup {Us, System}]
    /\ pc \in {"idle", "kill", "childs", "wait", "terminated"}
    /\ self \in Exe
    /\ pc \in {"kill", "childs", "wait"} => m_pid[self] \in Pid
    /\ childs \subseteq Pid
    /\ loose \subseteq Pid

\* However often objects are started, copied, moved, killed and destroyed, an
\* m_pid names a child of ours that nobody has waited for, so that kill() and
\* the destructor hit no process of anybody else; only a pid that join() gave
\* back, or that a failed fork made up, may be a stranger's.
PidPinned ==
    \A e \in Exe : m_pid[e] \in Pid \ loose =>
        isRunning(e) /\ parent[m_pid[e]] = Us

\* From the moment kill() turns to the children, the process itself has ended,
\* and stays so whatever other processes do meanwhile.
KilledIsDead ==
    pc = "childs" /\ m_pid[self] \notin loose => status[m_pid[self]] = "zombie"

=============================================================================
