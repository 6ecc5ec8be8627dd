\* The system may stop: with its tasks used up it has nothing left to do.
SPECIFICATION PlainSpec
CONSTANTS
    Worker  = {w1, w2}
    Client  = {c1, c2}
    Waiter  = {c2}
    Task    = {t1, t2}
    NoTask  = NoTask
    Limits  = {}
    SizeMax = 3
PROPERTY WaitReturns
CHECK_DEADLOCK FALSE
