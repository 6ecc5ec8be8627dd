\* Wakeups and liveness when no client calls wait(): no symmetry.
SPECIFICATION FairSpec
CONSTANTS
    Worker  = {w1, w2}
    Client  = {c1}
    Waiter  = {}
    Task    = {t1, t2}
    NoTask  = NoTask
    Limits  = {1}
    SizeMax = 3
INVARIANT NoLostWakeup
PROPERTIES
    TaskServed
    RemoveAllReturns
    DestroyReturns
