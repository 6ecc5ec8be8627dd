----------------------------- MODULE MCProcesses -----------------------------
(***************************************************************************)
(* The two uses of uprocess for TLC, one beside the other: in a behaviour  *)
(* either the objects of Executable or the calls of Foreground run, while  *)
(* the other module is where it starts.                                    *)
(***************************************************************************)
EXTENDS Executable, Foreground

ObjectsRest == Init /\ UNCHANGED vars
CallsRest == RunInit /\ UNCHANGED runVars

\* Which object a call is in is known only while it runs: one will do.
FirstSelf == self = CHOOSE e \in Exe : TRUE

ObjectsNext ==
    \/ \E e \in Exe :
        \/ \E p \in Pid : Start(e, p) /\ CallsRest
        \/ StartForkFails(e) /\ CallsRest
        \/ \E other \in Exe :
            \/ CopyAssign(e, other) /\ CallsRest
            \/ Move(e, other) /\ CallsRest
        \/ Kill(e) /\ CallsRest
        \/ KillThrows(e) /\ CallsRest
        \/ Destroy(e) /\ CallsRest
        \/ DestroyThrows(e) /\ CallsRest
        \/ Join(e) /\ CallsRest
    \/ KillParent /\ CallsRest
    \/ \E p \in Pid : KillChild(p) /\ CallsRest
    \/ KillDone /\ CallsRest
    \/ Waited /\ CallsRest
    \/ \E p \in Pid :
        \/ Stranger(p) /\ CallsRest
        \/ Exit(p) /\ CallsRest
        \/ Reap(p) /\ CallsRest
        \/ \E q \in Pid : Fork(p, q) /\ CallsRest

CallsNext ==
    \/ \E p \in Proc :
        \/ CallPlain(p) /\ ObjectsRest
        \/ \E n \in 0..MaxOutput : CallPiped(p, n) /\ ObjectsRest
    \/ ForkFails /\ ObjectsRest
    \/ PlainForkFails /\ ObjectsRest
    \/ ExecFails /\ ObjectsRest
    \/ \E n \in 1..PipeSize : Read(n) /\ ObjectsRest
    \/ ReadEnd /\ ObjectsRest
    \/ ReadFails /\ ObjectsRest
    \/ Wait /\ ObjectsRest
    \/ WaitFails /\ ObjectsRest
    \/ \E p \in Proc :
        \/ ProcWrite(p) /\ ObjectsRest
        \/ ProcClose(p) /\ ObjectsRest
        \/ ProcExit(p) /\ ObjectsRest
        \/ \E q \in Proc, n \in 0..MaxOutput : ProcFork(p, q, n) /\ ObjectsRest

BothInit == Init /\ FirstSelf /\ RunInit

BothSpec ==
    /\ BothInit
    /\ [][ObjectsNext \/ CallsNext]_<<vars, runVars>>
    /\ RunFairness

=============================================================================
