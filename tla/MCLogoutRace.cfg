\* Two logouts of one session with a store that refuses nothing
SPECIFICATION Spec
CONSTANTS
    Workers = {w1, w2}
    Sids = {s1, s2}
    Stray = Stray
    Names = {u1}
    NoUser = NoUser
    FreshDraws = TRUE
    StoreErrors = FALSE
INVARIANTS
    LogoutFailsOnStoreErrorOnly
