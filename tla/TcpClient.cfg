\* Requests of two bytes at most, answers of none, one and more than a buffer; a
\* full socket blocks send.
SPECIFICATION FairSpec
CONSTANTS
    Fd         = {0, 1, 2}
    BufferSize = 2
    RequestSize = 2
    Answers    = {0, 1, 3}
    Window     = 2
    MaxRequest = 3
    MaxForeign = 1
INVARIANTS
    TypeOK
    OwnDescriptor
    NoLeakIfDisconnected
PROPERTIES
    AnswersInOrder
    RequestReturns
