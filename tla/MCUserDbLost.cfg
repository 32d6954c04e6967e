\* One thread, one client: PG_POOL=1
SPECIFICATION Spec
CONSTANTS
    Threads = {t1}
    Clients = {c1}
    NoClient = NoClient
    Ids <- MCIds
    Names <- OneName
    Passwords = {8}
INVARIANTS
    AddUserReturns
