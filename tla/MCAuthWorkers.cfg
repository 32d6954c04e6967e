\* Two threads, ids that never repeat, a store that may refuse commands
SPECIFICATION Spec
CONSTANTS
    Workers = {w1, w2}
    Sids = {s1, s2}
    Stray = Stray
    Names = {u1, u2}
    NoUser = NoUser
    FreshDraws = TRUE
    StoreErrors = TRUE
INVARIANTS
    TypeOK
    OwnSession
    RevokedStaysDead
PROPERTIES
    NoTakeover
    LogoutOnce
    ImplementsSessions
    Answered
