\* Two objects and three pids: a pid in use again, and a child of a child.
\* A shell and two more processes, each with more output than the pipe holds;
\* two calls with a pipe, then no descriptors are left.
SPECIFICATION BothSpec
CONSTANTS
    Exe       = {e1, e2}
    Pid       = {p1, p2, p3}
    NoPid     = NoPid
    Us        = Us
    System    = System
    Proc      = {q1, q2, q3}
    NoProc    = NoProc
    Caller    = Caller
    PipeSize  = 1
    MaxOutput = 2
    MaxFd     = 3
INVARIANTS
    TypeOK
    PidPinned
    KilledIsDead
    OutputComplete
    ChildWaitedFor
PROPERTY ForegroundReturns
