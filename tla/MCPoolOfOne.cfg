\* REDIS_POOL=1 and PG_POOL=1, the defaults of main.cpp and example.env
SPECIFICATION Spec
CONSTANTS
    Threads = {t1, t2, t3}
    NumPool = 1
    NoContext = NoContext
    NoThread = NoThread
INVARIANTS
    TypeOK
    Exclusive
    RaceFree
    OwnReply
    Conserved
PROPERTIES
    ImplementsClientPool
    EveryWaiterServed
