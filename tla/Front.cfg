SPECIFICATION Spec
CONSTANTS
    k1 = k1  u1 = u1  r1 = r1  e1 = e1  e2 = e2
    s1 = s1  s2 = s2
    None = None  Typo = Typo  Empty = Empty  Torn = Torn
    Shells = {s1, s2}
    Users = {u1}
    Keys = {k1}
    Kek = {e1, e2}
    FirstKek = e1
    Requests = {r1}
    FaultBudgets <- FourProfiles
    Stores <- Leftover
    Window = 0
    Skew = 1
    RateLimit = 1
    MaxTime = 1
CHECK_DEADLOCK FALSE
INVARIANT TypeOK
INVARIANT ListensWithBuckets
INVARIANT ProfileIsWhole
INVARIANT HandledIsSigned
INVARIANT UnauthorizedForCause
PROPERTY ComesUp
