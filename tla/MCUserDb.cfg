\* Two threads, two clients, three users
SPECIFICATION Spec
CONSTANTS
    Threads = {t1, t2}
    Clients = {c1, c2}
    NoClient = NoClient
    Ids <- MCIds
    Names <- MCNames
    Passwords = {7, 8, 60, 61}
INVARIANTS
    TypeOK
    RightStatement
    NotTakenByItself
    RowsMakeUsers
    UserFound
    RegisteredStored
PROPERTIES
    ClientReturned
