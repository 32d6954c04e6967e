\* A pool of two connections and two threads
SPECIFICATION Spec
CONSTANTS
    Threads = {t1, t2}
    NumPool = 2
    NoContext = NoContext
    NoThread = NoThread
INVARIANTS
    Exclusive
