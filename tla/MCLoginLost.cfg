\* A login whose SET is refused, on one thread
SPECIFICATION Spec
CONSTANTS
    Workers = {w1}
    Sids = {s1, s2}
    Stray = Stray
    Names = {u1}
    NoUser = NoUser
    FreshDraws = TRUE
    StoreErrors = TRUE
INVARIANTS
    LoginSticks
