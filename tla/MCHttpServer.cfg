\* Two connections, every way of cutting and timing the requests
SPECIFICATION Spec
CONSTANTS
    c1 = c1
    c2 = c2
    Clients <- TwoClients
    NoClient = NoClient
    Requests <- Mixed
    BufferSize = 3
    MaxRequests <- TwiceOnce
INVARIANTS
    TypeOK
    Attended
    StoppedForGood
    FirstAnswer
PROPERTIES
    WholeBody
    AnsweredOrStuck
    StopDrains
CHECK_DEADLOCK FALSE
