SPECIFICATION Spec
CONSTANTS
    Clients = {c1, c2}
    NumNetconn = 3
    Requests = 2
    QueueLen = 1
INVARIANTS
    TypeOK
    SocketsAccounted
PROPERTIES
    AnswersKeepToSession
    WaitingServed
