\* Safety: two workers, a client that enqueues, cleans and waits, three tasks.
SPECIFICATION Spec
CONSTANTS
    Worker  = {w1, w2}
    Client  = {c1, c2}
    Waiter  = {c1, c2}
    Task    = {t1, t2, t3}
    NoTask  = NoTask
    Limits  = {0, 1, 4}
    SizeMax = 4
SYMMETRY Symmetric
INVARIANTS
    TypeOK
    TaskOwnership
    TicketsCovered
    DestroyedIsQuiet
PROPERTY QueueSpec
