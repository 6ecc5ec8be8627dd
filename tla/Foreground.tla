----------------------------- MODULE Foreground -----------------------------
(***************************************************************************)
(* uprocess::runForeground (linux/process.cpp): a shell runs the command,  *)
(* the caller reads what comes out of a pipe to its end and then waits for *)
(* the shell; without an output stream it only waits.                      *)
(*                                                                         *)
(* The command may leave processes in the background, which hold the write *)
(* end of the pipe as long as they have not closed it.  The bytes are      *)
(* numbered in the order they are written: those up to got have been read, *)
(* those up to written are in the pipe, and a process whose output does    *)
(* not fit in the pipe cannot go on.                                       *)
(***************************************************************************)
EXTENDS Naturals, FiniteSets

CONSTANTS Proc,       \* processes that one command may consist of
          NoProc,     \* childpid when no fork has succeeded
          Caller,     \* the calling process
          PipeSize,   \* bytes that fit in the pipe
          MaxOutput,  \* bound: bytes that one process writes
          MaxFd       \* descriptors the caller may have open

ASSUME ForegroundAssumption ==
    /\ NoProc \notin Proc /\ Caller \notin Proc
    /\ PipeSize \in Nat \ {0} /\ MaxOutput \in Nat /\ MaxFd \in Nat

VARIABLES
    at,           \* where the caller is: "idle", "read" or "wait"
    childpid,
    fds,          \* descriptors of pipes that the caller has open
    started,      \* processes the command has started
    running,      \* those that have not ended
    holders,      \* who holds the write end of the pipe
    todo,         \* bytes that each process has yet to write
    reaped,       \* the child has been waited for
    written, got,
    stray,        \* exec failed in the child: it is a second copy of our program
    interrupted   \* history: a signal cut read() or waitpid() short

callerVars == <<at, childpid, fds>>
procVars == <<started, running, holders, todo, stray>>
runVars == <<callerVars, procVars, reaped, written, got, interrupted>>

RunInit ==
    /\ at = "idle" /\ childpid = NoProc /\ fds = 0
    /\ started = {} /\ running = {} /\ holders = {}
    /\ todo = [p \in Proc |-> 0]
    /\ reaped = TRUE /\ stray = FALSE
    /\ written = 0 /\ got = 0 /\ interrupted = FALSE

-----------------------------------------------------------------------------
(* The caller                                                              *)

\* fork: p is the command's first process, with n bytes to write; whatever is
\* left of an earlier command does not concern this call.
Forked(p, n) ==
    /\ childpid' = p
    /\ started' = {p} /\ running' = {p}
    /\ todo' = [q \in Proc |-> IF q = p THEN n ELSE 0]
    /\ reaped' = FALSE /\ stray' = FALSE
    /\ written' = 0 /\ got' = 0 /\ interrupted' = FALSE

\* Mutant of Holding: the caller keeps its write end.
HoldingBoth(p) == {p, Caller}

\* The write end after the fork: the caller has closed its own.
Holding(p) == {p}

\* An output stream is given: pipe, fork and close succeed.
CallPiped(p, n) ==
    /\ at = "idle"
    /\ fds + 2 <= MaxFd
    /\ Forked(p, n)
    /\ holders' = Holding(p)
    /\ fds' = fds + 1
    /\ at' = "read"

\* fork fails: both ends of the pipe stay open.  (When pipe() fails the call
\* throws and changes nothing.)
ForkFails ==
    /\ at = "idle"
    /\ fds + 2 <= MaxFd
    /\ fds' = fds + 2
    /\ childpid' = NoProc
    /\ UNCHANGED <<at, procVars, reaped, written, got, interrupted>>

\* No output stream: the command writes elsewhere, and the caller waits.
CallPlain(p) ==
    /\ at = "idle"
    /\ Forked(p, 0)
    /\ holders' = {}
    /\ at' = "wait"
    /\ UNCHANGED fds

\* fork fails in execute(): nothing is waited for, and the childpid of the
\* caller stays what it was.
PlainForkFails ==
    /\ at = "idle"
    /\ UNCHANGED runVars

\* read() delivers n bytes, which go to the output stream.
Read(n) ==
    /\ at = "read"
    /\ n <= written - got
    /\ got' = got + n
    /\ UNCHANGED <<callerVars, procVars, reaped, written, interrupted>>

\* Mutant of Eof: the pipe is empty, though it may not stay so.
EofEmpty == written = got

\* read() returns 0: the pipe is empty and nobody can write to it any more.
Eof == written = got /\ holders = {}

ReadEnd ==
    /\ at = "read"
    /\ Eof
    /\ at' = "wait"
    /\ UNCHANGED <<childpid, fds, procVars, reaped, written, got, interrupted>>

\* read() fails (EINTR): the loop is left, the read end stays open.
ReadFails ==
    /\ at = "read"
    /\ at' = "wait"
    /\ interrupted' = TRUE
    /\ UNCHANGED <<childpid, fds, procVars, reaped, written, got>>

\* Mutant of ChildEnded: waitpid does not wait.
EndedOrNot == TRUE

ChildEnded == childpid \notin running

\* waitForProcess(): the child has ended; its pid is returned.
Wait ==
    /\ at = "wait"
    /\ ChildEnded
    /\ reaped' = TRUE
    /\ at' = "idle"
    /\ UNCHANGED <<childpid, fds, procVars, written, got, interrupted>>

\* waitpid() fails (EINTR): the call returns although the child may be running.
WaitFails ==
    /\ at = "wait"
    /\ interrupted' = TRUE
    /\ at' = "idle"
    /\ UNCHANGED <<childpid, fds, procVars, reaped, written, got>>

-----------------------------------------------------------------------------
(* The processes of the command                                            *)

\* exec fails in the child of a call with a pipe: the child throws, and runs on
\* from there as a copy of our program, with the pipe as its output.  (Without
\* a pipe it ends: ProcExit.)
ExecFails ==
    /\ childpid \in running \cap holders
    /\ started = {childpid} /\ written = 0
    /\ stray' = TRUE
    /\ UNCHANGED <<callerVars, started, running, holders, todo, reaped, written, got, interrupted>>

ProcWrite(p) ==
    /\ p \in running \cap holders
    /\ todo[p] > 0
    /\ written - got < PipeSize
    /\ written' = written + 1
    /\ todo' = [todo EXCEPT ![p] = @ - 1]
    /\ UNCHANGED <<callerVars, started, running, holders, stray, reaped, got, interrupted>>

\* p starts q, which inherits the write end if p has it, and has n bytes to write.
ProcFork(p, q, n) ==
    /\ p \in running
    /\ q \notin started
    /\ started' = started \cup {q} /\ running' = running \cup {q}
    /\ holders' = IF p \in holders THEN holders \cup {q} ELSE holders
    /\ todo' = [todo EXCEPT ![q] = n]
    /\ UNCHANGED <<callerVars, stray, reaped, written, got, interrupted>>

\* p closes or redirects its output, and lives on.
ProcClose(p) ==
    /\ p \in running \cap holders
    /\ todo[p] = 0
    /\ holders' = holders \ {p}
    /\ UNCHANGED <<callerVars, started, running, todo, stray, reaped, written, got, interrupted>>

\* p ends when what it had to write is written; that closes its write end.
ProcExit(p) ==
    /\ p \in running
    /\ p \in holders => todo[p] = 0
    /\ running' = running \ {p}
    /\ holders' = holders \ {p}
    /\ UNCHANGED <<callerVars, started, todo, stray, reaped, written, got, interrupted>>

-----------------------------------------------------------------------------
RunNext ==
    \/ \E p \in Proc : CallPlain(p) \/ \E n \in 0..MaxOutput : CallPiped(p, n)
    \/ ForkFails \/ PlainForkFails \/ ExecFails
    \/ (\E n \in 1..PipeSize : Read(n)) \/ ReadEnd \/ ReadFails
    \/ Wait \/ WaitFails
    \/ \E p \in Proc :
        \/ ProcWrite(p) \/ ProcClose(p) \/ ProcExit(p)
        \/ \E q \in Proc, n \in 0..MaxOutput : ProcFork(p, q, n)

RunSpec == RunInit /\ [][RunNext]_runVars

(***************************************************************************)
(* Fairness: the caller's thread runs, and every process of the command    *)
(* writes what it has to write and ends, unless it is blocked.  Nothing is *)
(* assumed of a child that is a copy of our program.                       *)
(***************************************************************************)
OfCommand(p) == ~(stray /\ p = childpid)

RunFairness ==
    /\ WF_runVars(\E n \in 1..PipeSize : Read(n)) /\ WF_runVars(ReadEnd) /\ WF_runVars(Wait)
    /\ \A p \in Proc : SF_runVars(OfCommand(p) /\ ProcWrite(p)) /\ WF_runVars(OfCommand(p) /\ ProcExit(p))

FairRunSpec == RunSpec /\ RunFairness

-----------------------------------------------------------------------------
(* Properties                                                              *)

RunTypeOK ==
    /\ at \in {"idle", "read", "wait"}
    /\ childpid \in Proc \cup {NoProc}
    /\ fds \in 0..MaxFd
    /\ running \subseteq started /\ started \subseteq Proc
    /\ holders \subseteq running
    /\ todo \in [Proc -> 0..MaxOutput]
    /\ reaped \in BOOLEAN /\ stray \in BOOLEAN /\ interrupted \in BOOLEAN
    /\ written \in Nat /\ got \in 0..written /\ written - got <= PipeSize

\* When the caller has turned from reading to waiting, and from then on, all
\* that the shell and its background processes ever write to the pipe has
\* reached the output stream.
OutputComplete ==
    at # "read" /\ ~interrupted => got = written /\ holders = {}

\* A call that no signal interrupted leaves neither its child nor a zombie.
ChildWaitedFor ==
    at = "idle" /\ ~interrupted => reaped /\ childpid \notin running

\* The call returns when the processes of the command end, however much they
\* write and however they hand the pipe on, unless a signal interrupts read():
\* then the child may fill the pipe, which nobody reads or closes any more; or
\* exec fails in the child, which is then another copy of our program.
ForegroundReturns == at # "idle" ~> (at = "idle" \/ interrupted \/ stray)

=============================================================================
