\* A retry after validUntil is refused although the first attempt succeeded.
CONSTANTS
    t1 = t1  t2 = t2  d1 = d1  d2 = d2  s1 = s1  s2 = s2
    k1 = k1  k2 = k2  m1 = m1  m2 = m2  Nil = Nil
    Threads = {t1, t2}
    Devices = {d1}
    Sims = {s1}
    Home <- HomeOne
    Keys = {k1}
    Bodies <- DatedBodies
    Msgs = {m1}
    Batches <- NoBatches
    SimLists <- NoLists
    Window = 1
    Skew = 0
    Orders = {TRUE}
    PullLimit = 1
    MaxClock = 2
    MayCrash = TRUE
    MayAdmin = FALSE
SPECIFICATION Spec
PROPERTY RetryNotRefused
CHECK_DEADLOCK FALSE
