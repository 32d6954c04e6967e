\* One POST on one connection
SPECIFICATION Spec
CONSTANTS
    c1 = c1
    c2 = c2
    Clients <- OneClient
    NoClient = NoClient
    Requests <- Posts
    BufferSize = 4
    MaxRequests <- Once
PROPERTIES
    RequestAnswered
CHECK_DEADLOCK FALSE
