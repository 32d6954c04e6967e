\* A signal while a connection is in use
SPECIFICATION Spec
CONSTANTS
    c1 = c1
    c2 = c2
    Clients <- OneClient
    NoClient = NoClient
    Requests <- Posts
    BufferSize = 4
    MaxRequests <- Once
INVARIANTS
    GracefulStop
CHECK_DEADLOCK FALSE
