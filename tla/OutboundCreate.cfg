\* Racing creates of one key, polls, crashes, and the administrator.
CONSTANTS
    t1 = t1  t2 = t2  d1 = d1  d2 = d2  s1 = s1  s2 = s2
    k1 = k1  k2 = k2  m1 = m1  m2 = m2  Nil = Nil
    Threads = {t1, t2}
    Devices = {d1, d2}
    Sims = {s1, s2}
    Home <- HomeTwo
    Keys = {k1}
    Bodies <- IdemBodies
    Msgs = {m1, m2}
    Batches <- NoBatches
    SimLists <- NoLists
    Window = 1
    Skew = 0
    Orders = {TRUE}
    PullLimit = 1
    MaxClock = 2
    MayCrash = TRUE
    MayAdmin = TRUE
SPECIFICATION Spec
INVARIANTS StillValid OneMessagePerKey AcksNameTheMessage
PROPERTIES DisabledDeviceFrozen BornOnUsableSim
SYMMETRY ThreadSymmetry
